---- MODULE Spec2Model ----
(***************************************************************************)
(* A model of swagger-docs-mcp (wx-mcp-go): the three registries, the      *)
(* read/write lock of the tool registry, the outbound HTTP client with its *)
(* retry loop, and the stdio JSON-RPC server.                              *)
(*                                                                         *)
(* Each subsystem has its own specification over the module's variables:    *)
(*   SpecTools  the tool registry, one API call per step                    *)
(*   SpecAux    the prompt and resource registries, one API call per step   *)
(*   SpecConc   goroutines on the tool registry, one statement per step     *)
(*   SpecHTTP   Client.ExecuteRequest, one statement group per step         *)
(*   SpecStdio  MCPServer's message loop with the background tool passes    *)
(*   SpecGen    the tool generator, one call per behaviour                  *)
(*   SpecPipe   extract, generate and register, run twice on a document     *)
(*   SpecFilter the tag filters of GET /tools and of the scanner            *)
(*   SpecShutdown  SSEServer's Start, Stop and stop with the handlers       *)
(*   SpecLife   MCPServer's Start, Stop and message loop, with fairness     *)
(*   SpecRace   the goroutines touching the SSE client map and streams      *)
(*   SpecKey    execute requests carrying an apiKey argument                *)
(* A specification leaves the variables of the other subsystems unchanged.  *)
(***************************************************************************)
EXTENDS Integers, Sequences, FiniteSets, TLC

VARIABLES
    tools,      \* ToolRegistry.tools: name -> tool
    prompts,    \* PromptRegistry.prompts: name -> prompt
    resources,  \* ResourceRegistry.resources: name -> resource
    uriIndex,   \* ResourceRegistry.uriIndex: uri -> resource
    ret,        \* the last registry call: its operation, argument, result and the maps before it
    rwWriter,   \* ToolRegistry.mutex: the goroutine holding the write lock, or 0
    rwReaders,  \* ToolRegistry.mutex: the goroutines holding a read lock
    pc,         \* per goroutine: the statement it executes next
    wtool,      \* per writer goroutine: the tool it passes to RegisterTool
    werr,       \* per writer goroutine: the error RegisterTool returned
    rcall,      \* per reader goroutine: the call it is in and its argument
    robs,       \* per reader goroutine: what its call has read so far
    cfgRetries, \* config.HTTP.Retries
    clPc,       \* Client.ExecuteRequest: "idle", "build", "loop", "done" (returned) or "panic"
    clEndpoint, \* ExecuteRequest's endpoint: its declared parameters
    clArgs,     \* ExecuteRequest's arguments: the keys present in the map
    clUrlOk,    \* whether the URL built from the arguments parses (http.NewRequest)
    attempt,    \* executeWithRetries: the loop variable
    attempts,   \* the number of requests sent on the network by this call
    outcomes,   \* what the network answered to each of them: no response or a status
    lastErr,    \* executeWithRetries: lastErr
    slept,      \* seconds spent in time.Sleep by this call
    bodies,     \* the body each of these requests carried: "full" or "drained"
    clRet,      \* what ExecuteRequest returned: a response or an error
    cfgMaxTools,\* config.Server.MaxTools
    srvPc,      \* MCPServer.handleMessages: "read", "calling", "crashed" (panic) or "eof"
    initialized,\* MCPServer.initialized
    cur,        \* the line handleMessages read last
    written,    \* the responses written to stdout since that line was read
    callTool,   \* handleCallTool: the tool it looked up (nil when there is none)
    passes,     \* the initializeTools goroutines started so far and where each one is
    clients,    \* SSEServer.clients: the ids in the map
    hPc,        \* per connection: where its handleSSE is
    ctxDone,    \* per connection: client.Context is done
    lastSeen,   \* per connection: client.LastSeen
    conn,       \* per connection: "live", "dead" (the peer is gone, silently) or "gone" (closed)
    stream,     \* per connection: the first events written to its stream
    late,       \* per connection: a Write was made on its stream after its handler returned
    now,        \* the clock, in periods of 30 seconds
    hbDue,      \* per connection: its heartbeat ticker has fired
    sweepDue,   \* the ticker of cleanupClients has fired
    stopped,    \* SSEServer.stop has run
    deadSweeps, \* per connection: the sweeps that left it registered while it was dead
    exPc,       \* per execute request: where its handleExecuteTool is
    exReq,      \* per execute request: the tool name, the body, the arguments, the API's answer
    exStatus,   \* per execute request: the HTTP status written (0: none)
    exSnap,     \* per execute request: the client map as broadcastEvent found it
    sendPc,     \* per execute request and connection: where the broadcast goroutine is
    paths,      \* ScanPathsAndURLs: the paths, each as what it is on disk
    urls,       \* ScanPathsAndURLs: the URLs, each as what it is on the network
    scanPc,     \* ScanPathsAndURLs: "paths", "urls" (the loop it is in) or "done"
    scanIdx,    \* ScanPathsAndURLs: the sources of the current loop already scanned
    allDocuments, \* ScanPathsAndURLs: allDocuments
    allErrors,  \* ScanPathsAndURLs: allErrors
    totalFiles, \* ScanPathsAndURLs: totalFiles
    scanRet,    \* ScanPathsAndURLs: the error and the stats it returned
    urlArray,   \* processURLArray: the items of the array
    arrPc,      \* processURLArray: "validate", "launch", "collect" or "returned"
    validURLs,  \* processURLArray: validURLs, as positions in the array
    initialErrors, \* processURLArray: initialErrors
    launched,   \* processURLArray: the goroutines started so far
    gPc,        \* per item: where the goroutine that scans it is
    resultChan, \* processURLArray: the results in resultChan
    chanClosed, \* processURLArray: resultChan is closed
    wg,         \* processURLArray: the counter of the WaitGroup
    closerPc,   \* processURLArray: where the goroutine that closes resultChan is
    arrDocuments, \* processURLArray: allDocuments
    arrErrors,  \* processURLArray: allErrors
    arrFiles,   \* processURLArray: totalFiles
    world,      \* per remote URL: what it answers
    calls,      \* the calls of scanSingleURL made so far, by chain: where each one is
    verIn,      \* the document whose version is inferred: its path and version fields
    verOut,     \* the version inferred for it
    nameIn,     \* generateToolName: the endpoint and the version of its document
    nameOut,    \* generateToolName: the name returned
    preferFormat, \* config.ToolGeneration.PreferFormat
    docIn,      \* GenerateToolsFromDocument: the endpoints of the document
    docOut,     \* GenerateToolsFromDocument: the tools returned
    schemaIn,   \* generateInputSchema: the endpoint
    schemaOut,  \* generateInputSchema: the schema returned
    marked,     \* AddSwaggerTool: the properties marked required
    pipeLeft,   \* the pipeline: the endpoints of the document not yet registered in this run
    pipeReg,    \* the pipeline: the tool registry of this run
    pipeDone,   \* the pipeline: the registries the finished runs ended with
    fltItem,    \* the filters: the tag lists of the item (its DocumentInfo)
    fltFilters, \* the filters: the filter lists
    fltRequest, \* the filters: the verdict of matchesTool
    fltStatic,  \* the filters: the verdict of the scanner's static filters
    topCtx,     \* the context given to SSEServer.Start is cancelled
    shutdownCh, \* SSEServer.shutdown: "open" or "closed"
    startPc,    \* SSEServer.Start: where it is, "returned" or "panic"
    cleanupPc,  \* cleanupClients: "running" or "exited"
    stopCalled, \* SSEServer.Stop has been called
    lfCtx,      \* MCPServer.Start: its context is cancelled
    lfShutdown, \* MCPServer.shutdown: "open" or "closed"
    lfCloses,   \* the number of close(s.shutdown) executed
    lfStartPc,  \* MCPServer.Start: where it is, "returned" or "panic"
    lfLoopPc,   \* handleMessages: where it is, or "exited"
    lfInput,    \* the lines waiting unread on the input stream
    lfEof,      \* the input stream has been closed by the peer
    lfStopPc,   \* per caller of MCPServer.Stop: where it is
    rcPc,       \* per goroutine of the SSE server: the statement it executes
    clientsMutexW, \* SSEServer.clientsMutex: the goroutine holding the write lock, or "none"
    clientsMutexR, \* SSEServer.clientsMutex: the goroutines holding a read lock
    rcInMap,    \* the client is in s.clients
    rcCtxDone,  \* the client's context is cancelled
    kyConfig,   \* SSEServer.config: the part holding Auth.APIKey
    kyPc,       \* per execute request: "idle", "decoded", "extracted", "called" or "done"
    kyBody,     \* per execute request: the apiKey entry of the body's arguments
    kyArgs,     \* per execute request: the apiKey entry of request.Arguments
    kyKey,      \* per execute request: the local variable apiKey
    kyHeader,   \* per execute request: the key on its outbound call
    kyPassed,   \* per execute request: the apiKey entry of the arguments given to ExecuteRequest
    kyEvent     \* per execute request: the apiKey entry of the tool_execution event

regVars == <<tools, prompts, resources, uriIndex, ret>>

concVars == <<rwWriter, rwReaders, pc, wtool, werr, rcall, robs>>

httpVars == <<cfgRetries, clPc, clEndpoint, clArgs, clUrlOk, attempt, attempts,
              outcomes, lastErr, slept, bodies, clRet>>

stdioVars == <<cfgMaxTools, srvPc, initialized, cur, written, callTool, passes>>

sseVars == <<clients, hPc, ctxDone, lastSeen, conn, stream, late, now, hbDue, sweepDue,
             stopped, deadSweeps, exPc, exReq, exStatus, exSnap, sendPc>>

scanVars == <<paths, urls, scanPc, scanIdx, allDocuments, allErrors, totalFiles, scanRet>>

arrVars == <<urlArray, arrPc, validURLs, initialErrors, launched, gPc, resultChan, chanClosed,
             wg, closerPc, arrDocuments, arrErrors, arrFiles>>

recVars == <<world, calls>>

verVars == <<verIn, verOut>>

scannerVars == <<scanVars, arrVars, recVars, verVars>>

genVars == <<nameIn, nameOut, preferFormat, docIn, docOut, schemaIn, schemaOut, marked>>

pipeVars == <<pipeLeft, pipeReg, pipeDone>>

filterVars == <<fltItem, fltFilters, fltRequest, fltStatic>>

shutdownVars == <<topCtx, shutdownCh, startPc, cleanupPc, stopCalled>>

lifeVars == <<lfCtx, lfShutdown, lfCloses, lfStartPc, lfLoopPc, lfInput, lfEof, lfStopPc>>

raceVars == <<rcPc, clientsMutexW, clientsMutexR, rcInMap, rcCtxDone>>

keyVars == <<kyConfig, kyPc, kyBody, kyArgs, kyKey, kyHeader, kyPassed, kyEvent>>

moreVars == <<lifeVars, raceVars, keyVars>>

restVars == <<genVars, pipeVars, filterVars, shutdownVars, moreVars>>

vars == <<regVars, concVars, httpVars, stdioVars, sseVars, scannerVars, restVars>>

(***************************************************************************)
(* Values                                                                  *)
(***************************************************************************)

\* how many distinct sources (documents) may produce an entry of the same name
NumSrc == 2

Srcs == 1..NumSrc

\* tool / prompt / resource names that callers use; "" is the empty name
Names == {"a", "b"}

URIs == {"u1", "u2"}

\* a generated tool: its name and the endpoint/document it came from
ToolPool == [name : Names \cup {""}, src : Srcs]

PromptPool == [name : Names, src : Srcs]

ResourcePool == [name : Names, uri : URIs, src : Srcs]

\* Go's nil *GeneratedTool / *GeneratedPrompt / *GeneratedResource
NilTool == [name |-> "<nil>", src |-> 0]

NilPrompt == [name |-> "<nil>", src |-> 0]

NilResource == [name |-> "<nil>", uri |-> "<nil>", src |-> 0]

\* make(map[string]*T)
EmptyMap == [k \in {} |-> NilTool]

\* m[k] = v
MapPut(m, k, v) == [x \in DOMAIN m \cup {k} |-> IF x = k THEN v ELSE m[x]]

\* delete(m, k)
MapDelete(m, k) == [x \in DOMAIN m \ {k} |-> m[x]]

\* v := m[k]  (the zero value, nil, when k is absent)
MapGet(m, k, nil) == IF k \in DOMAIN m THEN m[k] ELSE nil

\* len(m)
MapLen(m) == Cardinality(DOMAIN m)

(***************************************************************************)
(* ToolRegistry (src/pkg/server/registry.go)                               *)
(***************************************************************************)

\* a RegisterTool that stores without looking for an existing entry
RegisterTool_Overwrite(reg, tool) ==
    IF tool.name = ""
    THEN [tools |-> reg, err |-> "empty_name"]
    ELSE [tools |-> MapPut(reg, tool.name, tool), err |-> "nil"]

\* RegisterTool: the registry after the call and the error returned
RegisterTool(reg, tool) ==
    IF tool.name = ""
    THEN [tools |-> reg, err |-> "empty_name"]
    ELSE IF tool.name \in DOMAIN reg
         THEN [tools |-> reg, err |-> "conflict"]
         ELSE [tools |-> MapPut(reg, tool.name, tool), err |-> "nil"]

GetTool(reg, name) == MapGet(reg, name, NilTool)

GetAllTools(reg) == {reg[n] : n \in DOMAIN reg}

GetToolCount(reg) == MapLen(reg)

HasTool(reg, name) == name \in DOMAIN reg

\* UnregisterTool: the registry after the call and the boolean returned
UnregisterTool(reg, name) ==
    IF name \in DOMAIN reg
    THEN [tools |-> MapDelete(reg, name), ok |-> TRUE]
    ELSE [tools |-> reg, ok |-> FALSE]

ClearTools(reg) == EmptyMap

NoCall == [op |-> "none"]

InitReg ==
    /\ tools = EmptyMap
    /\ prompts = EmptyMap
    /\ resources = EmptyMap
    /\ uriIndex = EmptyMap
    /\ ret = NoCall

DoRegisterTool ==
    \E t \in ToolPool :
        LET r == RegisterTool(tools, t) IN
        /\ tools' = r.tools
        /\ ret' = [op |-> "RegisterTool", arg |-> t, err |-> r.err, pre |-> tools]
        /\ UNCHANGED <<prompts, resources, uriIndex, concVars, httpVars, stdioVars>>

DoUnregisterTool ==
    \E n \in Names \cup {""} :
        LET r == UnregisterTool(tools, n) IN
        /\ tools' = r.tools
        /\ ret' = [op |-> "UnregisterTool", arg |-> n, ok |-> r.ok, pre |-> tools]
        /\ UNCHANGED <<prompts, resources, uriIndex, concVars, httpVars, stdioVars>>

DoGetTool ==
    \E n \in Names \cup {""} :
        /\ ret' = [op |-> "GetTool", arg |-> n, tool |-> GetTool(tools, n), pre |-> tools]
        /\ UNCHANGED <<tools, prompts, resources, uriIndex, concVars, httpVars, stdioVars>>

DoGetToolCount ==
    /\ ret' = [op |-> "GetToolCount", count |-> GetToolCount(tools), pre |-> tools]
    /\ UNCHANGED <<tools, prompts, resources, uriIndex, concVars, httpVars, stdioVars>>

DoHasTool ==
    \E n \in Names \cup {""} :
        /\ ret' = [op |-> "HasTool", arg |-> n, ok |-> HasTool(tools, n), pre |-> tools]
        /\ UNCHANGED <<tools, prompts, resources, uriIndex, concVars, httpVars, stdioVars>>

DoClearTools ==
    /\ tools' = ClearTools(tools)
    /\ ret' = [op |-> "Clear", pre |-> tools]
    /\ UNCHANGED <<prompts, resources, uriIndex, concVars, httpVars, stdioVars>>

(***************************************************************************)
(* PromptRegistry (src/unnamed/part_011)                                   *)
(***************************************************************************)

\* RegisterPrompt: the map after the call and the error returned
RegisterPrompt(reg, prompt) ==
    [prompts |-> MapPut(reg, prompt.name, prompt), err |-> "nil"]

GetPrompt(reg, name) == MapGet(reg, name, NilPrompt)

RemovePrompt(reg, name) ==
    IF name \in DOMAIN reg
    THEN [prompts |-> MapDelete(reg, name), ok |-> TRUE]
    ELSE [prompts |-> reg, ok |-> FALSE]

DoRegisterPrompt ==
    \E p \in PromptPool :
        LET r == RegisterPrompt(prompts, p) IN
        /\ prompts' = r.prompts
        /\ ret' = [op |-> "RegisterPrompt", arg |-> p, err |-> r.err, pre |-> prompts]
        /\ UNCHANGED <<tools, resources, uriIndex, concVars, httpVars, stdioVars>>

DoRemovePrompt ==
    \E n \in Names :
        LET r == RemovePrompt(prompts, n) IN
        /\ prompts' = r.prompts
        /\ ret' = [op |-> "RemovePrompt", arg |-> n, ok |-> r.ok, pre |-> prompts]
        /\ UNCHANGED <<tools, resources, uriIndex, concVars, httpVars, stdioVars>>

DoClearPrompts ==
    /\ prompts' = EmptyMap
    /\ ret' = [op |-> "ClearPrompts", pre |-> prompts]
    /\ UNCHANGED <<tools, resources, uriIndex, concVars, httpVars, stdioVars>>

(***************************************************************************)
(* ResourceRegistry (src/unnamed/part_010)                                 *)
(***************************************************************************)

\* RegisterResource: both maps after the call and the error returned
RegisterResource(res, idx, resource) ==
    [resources |-> MapPut(res, resource.name, resource),
     uriIndex  |-> MapPut(idx, resource.uri, resource),
     err       |-> "nil"]

GetResource(res, name) == MapGet(res, name, NilResource)

GetResourceByURI(idx, uri) == MapGet(idx, uri, NilResource)

GetResourceCount(res) == MapLen(res)

RemoveResource(res, idx, name) ==
    IF name \in DOMAIN res
    THEN [resources |-> MapDelete(res, name),
          uriIndex  |-> MapDelete(idx, res[name].uri),
          ok        |-> TRUE]
    ELSE [resources |-> res, uriIndex |-> idx, ok |-> FALSE]

RemoveResourceByURI(res, idx, uri) ==
    IF uri \in DOMAIN idx
    THEN [resources |-> MapDelete(res, idx[uri].name),
          uriIndex  |-> MapDelete(idx, uri),
          ok        |-> TRUE]
    ELSE [resources |-> res, uriIndex |-> idx, ok |-> FALSE]

DoRegisterResource ==
    \E r \in ResourcePool :
        LET o == RegisterResource(resources, uriIndex, r) IN
        /\ resources' = o.resources
        /\ uriIndex' = o.uriIndex
        /\ ret' = [op |-> "RegisterResource", arg |-> r, err |-> o.err,
                   pre |-> resources, preIdx |-> uriIndex]
        /\ UNCHANGED <<tools, prompts, concVars, httpVars, stdioVars>>

DoRemoveResource ==
    \E n \in Names :
        LET o == RemoveResource(resources, uriIndex, n) IN
        /\ resources' = o.resources
        /\ uriIndex' = o.uriIndex
        /\ ret' = [op |-> "RemoveResource", arg |-> n, ok |-> o.ok,
                   pre |-> resources, preIdx |-> uriIndex]
        /\ UNCHANGED <<tools, prompts, concVars, httpVars, stdioVars>>

DoRemoveResourceByURI ==
    \E u \in URIs :
        LET o == RemoveResourceByURI(resources, uriIndex, u) IN
        /\ resources' = o.resources
        /\ uriIndex' = o.uriIndex
        /\ ret' = [op |-> "RemoveResourceByURI", arg |-> u, ok |-> o.ok,
                   pre |-> resources, preIdx |-> uriIndex]
        /\ UNCHANGED <<tools, prompts, concVars, httpVars, stdioVars>>

DoClearResources ==
    /\ resources' = EmptyMap
    /\ uriIndex' = EmptyMap
    /\ ret' = [op |-> "ClearResources", pre |-> resources, preIdx |-> uriIndex]
    /\ UNCHANGED <<tools, prompts, concVars, httpVars, stdioVars>>


(***************************************************************************)
(* Goroutines on the tool registry (src/pkg/server/registry.go).  A writer *)
(* goroutine runs one RegisterTool; a reader goroutine runs GetTool,       *)
(* GetAllTools and GetToolCount calls, one after the other.  Each step is  *)
(* one statement; the lock is sync.RWMutex.                                *)
(***************************************************************************)

\* how many goroutines call RegisterTool at the same time
NumWriters == 2

\* how many goroutines read the registry at the same time
NumReaders == 1

Writers == 1..NumWriters

Readers == (NumWriters + 1)..(NumWriters + NumReaders)

\* a Lock that only waits for a writer, as RLock does
CanLock_AsRLock(p) == rwWriter = 0

\* mutex.Lock() returns: no goroutine holds the lock in either mode
CanLock(p) == rwWriter = 0 /\ rwReaders = {}

\* mutex.RLock() returns: no goroutine holds the write lock
CanRLock(p) == rwWriter = 0

NoObs == [cap |-> -1, list |-> {}, tool |-> NilTool, count |-> -1]

\* the goroutines' variables while no goroutine runs
IdleConc ==
    /\ rwWriter = 0
    /\ rwReaders = {}
    /\ pc = <<>>
    /\ wtool = <<>>
    /\ werr = <<>>
    /\ rcall = <<>>
    /\ robs = <<>>

\* registry.go:25  r.mutex.Lock()
WLock(w) ==
    /\ pc[w] = "w_lock"
    /\ CanLock(w)
    /\ rwWriter' = w
    /\ pc' = [pc EXCEPT ![w] = "w_empty"]
    /\ UNCHANGED <<regVars, httpVars, stdioVars, rwReaders, wtool, werr, rcall, robs>>

\* registry.go:28-31  if tool.Name == "" { return error }
WEmpty(w) ==
    /\ pc[w] = "w_empty"
    /\ IF wtool[w].name = ""
       THEN /\ werr' = [werr EXCEPT ![w] = "empty_name"]
            /\ pc' = [pc EXCEPT ![w] = "w_unlock"]
       ELSE /\ pc' = [pc EXCEPT ![w] = "w_check"]
            /\ UNCHANGED werr
    /\ UNCHANGED <<regVars, httpVars, stdioVars, rwWriter, rwReaders, wtool, rcall, robs>>

\* registry.go:33-38  if existing, exists := r.tools[tool.Name]; exists { return error }
WCheck(w) ==
    /\ pc[w] = "w_check"
    /\ IF wtool[w].name \in DOMAIN tools
       THEN /\ werr' = [werr EXCEPT ![w] = "conflict"]
            /\ pc' = [pc EXCEPT ![w] = "w_unlock"]
       ELSE /\ pc' = [pc EXCEPT ![w] = "w_store"]
            /\ UNCHANGED werr
    /\ UNCHANGED <<regVars, httpVars, stdioVars, rwWriter, rwReaders, wtool, rcall, robs>>

\* registry.go:40-41  r.tools[tool.Name] = tool; return nil
WStore(w) ==
    /\ pc[w] = "w_store"
    /\ tools' = MapPut(tools, wtool[w].name, wtool[w])
    /\ werr' = [werr EXCEPT ![w] = "nil"]
    /\ pc' = [pc EXCEPT ![w] = "w_unlock"]
    /\ UNCHANGED <<httpVars, stdioVars, prompts, resources, uriIndex, ret, rwWriter, rwReaders, wtool, rcall, robs>>

\* registry.go:26  defer r.mutex.Unlock()
WUnlock(w) ==
    /\ pc[w] = "w_unlock"
    /\ rwWriter' = IF rwWriter = w THEN 0 ELSE rwWriter
    /\ pc' = [pc EXCEPT ![w] = "w_done"]
    /\ UNCHANGED <<regVars, httpVars, stdioVars, rwReaders, wtool, werr, rcall, robs>>

\* a reader goroutine enters GetTool(n), GetAllTools() or GetToolCount()
RCall(r) ==
    /\ pc[r] = "r_idle"
    /\ \E op \in {"GetTool", "GetAllTools", "GetToolCount"}, n \in Names :
          rcall' = [rcall EXCEPT ![r] = [op |-> op, name |-> IF op = "GetTool" THEN n ELSE ""]]
    /\ robs' = [robs EXCEPT ![r] = NoObs]
    /\ pc' = [pc EXCEPT ![r] = "r_rlock"]
    /\ UNCHANGED <<regVars, httpVars, stdioVars, rwWriter, rwReaders, wtool, werr>>

\* registry.go:46, 54, 80  r.mutex.RLock()
RRLock(r) ==
    /\ pc[r] = "r_rlock"
    /\ CanRLock(r)
    /\ rwReaders' = rwReaders \cup {r}
    /\ pc' = [pc EXCEPT ![r] = IF rcall[r].op = "GetAllTools" THEN "r_make" ELSE "r_read"]
    /\ UNCHANGED <<regVars, httpVars, stdioVars, rwWriter, wtool, werr, rcall, robs>>

\* registry.go:57  tools := make([]*types.GeneratedTool, 0, len(r.tools))
RMake(r) ==
    /\ pc[r] = "r_make"
    /\ robs' = [robs EXCEPT ![r].cap = MapLen(tools)]
    /\ pc' = [pc EXCEPT ![r] = "r_read"]
    /\ UNCHANGED <<regVars, httpVars, stdioVars, rwWriter, rwReaders, wtool, werr, rcall>>

\* registry.go:49 return r.tools[name]; 58-60 the range loop; 83 return len(r.tools)
RRead(r) ==
    /\ pc[r] = "r_read"
    /\ robs' = [robs EXCEPT ![r] =
                  CASE rcall[r].op = "GetTool" -> [@ EXCEPT !.tool = GetTool(tools, rcall[r].name)]
                    [] rcall[r].op = "GetAllTools" -> [@ EXCEPT !.list = GetAllTools(tools)]
                    [] OTHER -> [@ EXCEPT !.count = GetToolCount(tools)]]
    /\ pc' = [pc EXCEPT ![r] = "r_runlock"]
    /\ UNCHANGED <<regVars, httpVars, stdioVars, rwWriter, rwReaders, wtool, werr, rcall>>

\* registry.go:47, 55, 81  defer r.mutex.RUnlock(): the call returns
RRUnlock(r) ==
    /\ pc[r] = "r_runlock"
    /\ rwReaders' = rwReaders \ {r}
    /\ pc' = [pc EXCEPT ![r] = "r_idle"]
    /\ UNCHANGED <<regVars, httpVars, stdioVars, rwWriter, wtool, werr, rcall, robs>>




(***************************************************************************)
(* The outbound HTTP client (package http in src/pkg/types/mcp.go).        *)
(***************************************************************************)

\* the largest config.HTTP.Retries the model runs with
MaxRetries == 3

\* the statuses the remote API answers with
Statuses == {200, 404, 429, 500, 502, 503, 504}

\* httpClient.Do fails (no response) or answers with a status
NetErr == [ok |-> FALSE, status |-> 0]

HTTPAnswer(status) == [ok |-> TRUE, status |-> status]

NetworkOutcomes == {NetErr} \cup {HTTPAnswer(st) : st \in Statuses}

\* a shouldRetry that retries whatever the status
ShouldRetry_Always(statusCode) == TRUE

\* a shouldRetry that leaves 503 out of the list
ShouldRetry_No503(statusCode) == statusCode \in {429, 500, 502, 504}

\* shouldRetry: retryableCodes
ShouldRetry(statusCode) == statusCode \in {429, 500, 502, 503, 504}

\* the argument keys a caller may pass
ArgNames == {"p", "q", "requestBody"}

\* endpoints: the declared parameters, in order
EndpointPool ==
    { <<>>,
      << [name |-> "p", required |-> TRUE], [name |-> "q", required |-> FALSE] >>,
      << [name |-> "q", required |-> FALSE], [name |-> "p", required |-> TRUE] >>,
      << [name |-> "p", required |-> TRUE], [name |-> "q", required |-> TRUE] >> }

\* getBaseURL: the same literal on both branches
GetBaseURL == "https://api.weather.com"

\* a parameter loop that skips every absent parameter, required or not
MissingRequired_Skip(endpoint, arguments) == {}

\* buildRequest's parameter loop: the positions of the parameters at which it
\* returns the "required parameter is missing" error
MissingRequired(endpoint, arguments) ==
    {i \in 1..Len(endpoint) : endpoint[i].name \notin arguments /\ endpoint[i].required}

\* buildRequest: "ok", the error it returns, or "panic".  With no requestBody
\* argument bodyReader stays a nil *bytes.Reader; http.NewRequest gets it as a
\* non-nil io.Reader and calls Len() on it: a nil pointer dereference.
BuildRequest(endpoint, arguments, urlOk) ==
    IF MissingRequired(endpoint, arguments) # {} THEN "validation"
    ELSE IF GetBaseURL = "" THEN "no_base_url"
    ELSE IF ~urlOk THEN "new_request"
    ELSE IF "requestBody" \notin arguments THEN "panic"
    ELSE "ok"

\* a cloneRequest that leaves the clone with the reader of the original
CloneRequest_SharedBody(sent) == IF sent = 0 THEN "full" ELSE "drained"

\* cloneRequest, for the request that follows `sent` earlier ones: the request
\* was built on a *bytes.Reader, so GetBody is set and gives a new reader on
\* the same bytes
CloneRequest(sent) == "full"

NoRet == [kind |-> "none", status |-> 0, err |-> "nil", named |-> 0]

\* the client's variables while no call runs
IdleHTTP ==
    /\ cfgRetries = 0
    /\ clPc = "idle"
    /\ clEndpoint = <<>>
    /\ clArgs = {}
    /\ clUrlOk = TRUE
    /\ attempt = 0
    /\ attempts = 0
    /\ outcomes = <<>>
    /\ lastErr = "nil"
    /\ slept = 0
    /\ bodies = <<>>
    /\ clRet = NoRet

\* a caller enters ExecuteRequest(endpoint, arguments)
ClientEnter(endpoint, arguments, urlOk) ==
    /\ clPc \in {"idle", "done"}
    /\ clPc' = "build"
    /\ clEndpoint' = endpoint
    /\ clArgs' = arguments
    /\ clUrlOk' = urlOk
    /\ attempt' = 0
    /\ attempts' = 0
    /\ outcomes' = <<>>
    /\ lastErr' = "nil"
    /\ slept' = 0
    /\ bodies' = <<>>
    /\ clRet' = NoRet
    /\ UNCHANGED cfgRetries

\* ExecuteRequest up to the retry loop: buildRequest, addAuthentication (always
\* nil), addDefaultHeaders
ClientBuild ==
    /\ clPc = "build"
    /\ LET b == BuildRequest(clEndpoint, clArgs, clUrlOk) IN
         CASE b = "ok" ->
                /\ clPc' = "loop"
                /\ UNCHANGED clRet
           [] b = "panic" ->
                /\ clPc' = "panic"
                /\ UNCHANGED clRet
           [] OTHER ->
                /\ clPc' = "done"
                /\ clRet' = [kind |-> "error", status |-> 0, err |-> b, named |-> 0]
    /\ UNCHANGED <<cfgRetries, clEndpoint, clArgs, clUrlOk, attempt, attempts,
                   outcomes, lastErr, slept, bodies>>

\* one iteration of executeWithRetries' loop: the backoff sleep, the request and
\* the decision to retry or return; `outcome` is the network's answer
ClientAttempt(outcome) ==
    /\ clPc = "loop"
    /\ attempt <= cfgRetries
    /\ slept' = IF attempt > 0 THEN slept + attempt * attempt ELSE slept
    /\ attempts' = attempts + 1
    /\ outcomes' = Append(outcomes, outcome)
    /\ bodies' = Append(bodies, CloneRequest(attempts))
    /\ IF outcome = NetErr
       THEN /\ lastErr' = "transport"
            /\ attempt' = attempt + 1
            /\ UNCHANGED <<clPc, clRet>>
       ELSE IF ShouldRetry(outcome.status) /\ attempt < cfgRetries
       THEN /\ lastErr' = "http_status"
            /\ attempt' = attempt + 1
            /\ UNCHANGED <<clPc, clRet>>
       ELSE /\ clPc' = "done"
            /\ clRet' = [kind |-> "response", status |-> outcome.status, err |-> "nil", named |-> 0]
            /\ UNCHANGED <<lastErr, attempt>>
    /\ UNCHANGED <<cfgRetries, clEndpoint, clArgs, clUrlOk>>

\* the loop ends: "request failed after %d attempts", wrapped by ExecuteRequest
ClientExhausted ==
    /\ clPc = "loop"
    /\ attempt > cfgRetries
    /\ clPc' = "done"
    /\ clRet' = [kind |-> "error", status |-> 0, err |-> "exhausted", named |-> cfgRetries + 1]
    /\ UNCHANGED <<cfgRetries, clEndpoint, clArgs, clUrlOk, attempt, attempts,
                   outcomes, lastErr, slept, bodies>>


(***************************************************************************)
(* The stdio server (package server in src/pkg/server/mcp.go).             *)
(*                                                                         *)
(* A line of stdin is a record:                                            *)
(*   kind "empty"    the empty line                                        *)
(*   kind "badjson"  json.Unmarshal into MCPRequest returns an error; id is *)
(*                   the id member that can be read in the line's text      *)
(*                   (NilId when there is none)                             *)
(*   kind "request"  a decoded MCPRequest: id (NilId when absent), method   *)
(*                   and, for tools/call, params                            *)
(* stdout is taken to be writable: sendMessage's Write does not fail.       *)
(***************************************************************************)

\* how many initializeTools goroutines the model lets the server start
MaxPasses == 2

\* request.ID == nil
NilId == "nil"

IdPool == {"1", "2"}

SupportedMethods ==
    {"initialize", "initialized", "notifications/initialized", "tools/list",
     "tools/call", "prompts/list", "prompts/get", "resources/list", "resources/read"}

UnknownMethods == {"ping"}

\* params that decode into MCPCallToolParams: the name and the argument keys
CallParams(name, args, urlOk) == [ok |-> TRUE, name |-> name, args |-> args, urlOk |-> urlOk]

\* params absent: the zero MCPCallToolParams
NoParams == CallParams("", {}, TRUE)

\* params that do not decode into MCPCallToolParams (a string, an array)
BadParams == [ok |-> FALSE, name |-> "", args |-> {}, urlOk |-> TRUE]

\* the argument maps stdio callers pass
StdioArgs == {{}, {"requestBody"}, {"p"}, {"p", "requestBody"}}

\* the params stdio callers pass; one of them has arguments whose URL does not parse
CallParamsPool ==
    {NoParams, BadParams, CallParams("b", {"requestBody"}, FALSE)}
        \cup {CallParams(n, a, TRUE) : n \in Names, a \in StdioArgs}

EmptyLine == [kind |-> "empty", id |-> NilId, method |-> "", params |-> NoParams]

BadJSON(id) == [kind |-> "badjson", id |-> id, method |-> "", params |-> NoParams]

Request(id, method, params) ==
    [kind |-> "request", id |-> id, method |-> method, params |-> params]

NoLine == [kind |-> "none", id |-> NilId, method |-> "", params |-> NoParams]

\* the documents the scanner finds and the tools the generator makes of each:
\* the second document has an endpoint that yields a name of the first
GenDocs ==
    << << [name |-> "a", src |-> 1], [name |-> "b", src |-> 1] >>,
       << [name |-> "a", src |-> 2] >> >>

\* tool.Endpoint: the declared parameters of the endpoint a tool was made of
EndpointOf(tool) ==
    IF tool.name = "a"
    THEN << [name |-> "q", required |-> FALSE], [name |-> "p", required |-> TRUE] >>
    ELSE <<>>

\* sendResponse: MCPResponse{ID: id, Result: result}
ResultResponse(id, what, isError, list) ==
    [id |-> id, kind |-> "result", code |-> 0, what |-> what, isError |-> isError,
     list |-> list]

\* sendErrorResponse: MCPResponse{ID: id, Error: {code, message}}
ErrorResponse(id, code, message) ==
    [id |-> id, kind |-> "error", code |-> code, what |-> message, isError |-> FALSE,
     list |-> {}]

\* a default branch that answers a notification too
UnknownMethodReply_AlwaysAnswer(request) ==
    <<ErrorResponse(request.id, -32601, "Method not found")>>

\* handleRequest, default branch: nothing for a notification, else -32601
UnknownMethodReply(request) ==
    IF request.id = NilId
    THEN <<>>
    ELSE <<ErrorResponse(request.id, -32601, "Method not found")>>

\* handleMessages on an Unmarshal error: sendErrorResponse(nil, -32700, ...)
ParseErrorReply(line) == <<ErrorResponse(NilId, -32700, "Parse error")>>

\* executeAPICall + handleCallTool: the response for what ExecuteRequest returned
CallToolReply(id, r) ==
    IF r.kind = "error"
    THEN <<ResultResponse(id, "call", TRUE, {})>>
    ELSE <<ResultResponse(id, "call", r.status >= 400, {})>>

\* the position of a fresh initializeTools goroutine: document, tool, toolCount
NewPass == [doc |-> 1, idx |-> 1, count |-> 0, done |-> FALSE]

\* the stdio server's variables while there is no server
IdleStdio ==
    /\ cfgMaxTools = 0
    /\ srvPc = "none"
    /\ initialized = FALSE
    /\ cur = NoLine
    /\ written = <<>>
    /\ callTool = NilTool
    /\ passes = <<>>

\* the client's locals are those of no call
ClientReset ==
    /\ clPc' = "idle"
    /\ clEndpoint' = <<>>
    /\ clArgs' = {}
    /\ clUrlOk' = TRUE
    /\ attempt' = 0
    /\ attempts' = 0
    /\ outcomes' = <<>>
    /\ lastErr' = "nil"
    /\ slept' = 0
    /\ bodies' = <<>>
    /\ clRet' = NoRet
    /\ UNCHANGED cfgRetries

\* a message loop that reads the next line while a call is still running
Recv_WhileCalling(line) ==
    /\ srvPc \in {"read", "calling"}
    /\ cur' = line
    /\ UNCHANGED <<cfgMaxTools, concVars, prompts, resources, uriIndex, ret>>

\* handleMessages reads `line` (scanner.Scan, scanner.Text)
Recv(line) ==
    /\ srvPc = "read"
    /\ cur' = line
    /\ UNCHANGED <<cfgMaxTools, concVars, prompts, resources, uriIndex, ret>>

\* a line handled without an outbound call: its responses, and back to reading
Reply(responses) ==
    /\ written' = responses
    /\ callTool' = NilTool
    /\ srvPc' = "read"
    /\ ClientReset

\* mcp.go:222-224  if line == "" { continue }
DoEmptyLine ==
    /\ Recv(EmptyLine)
    /\ Reply(<<>>)
    /\ UNCHANGED <<tools, initialized, passes>>

\* mcp.go:230-234  Unmarshal fails: parse error, continue
DoParseError ==
    \E id \in IdPool \cup {NilId} :
        /\ Recv(BadJSON(id))
        /\ Reply(ParseErrorReply(BadJSON(id)))
        /\ UNCHANGED <<tools, initialized, passes>>

\* handleInitialize
DoInitialize ==
    \E id \in IdPool \cup {NilId} :
        /\ Recv(Request(id, "initialize", NoParams))
        /\ Reply(<<ResultResponse(id, "initialize", FALSE, {})>>)
        /\ UNCHANGED <<tools, initialized, passes>>

\* handleInitialized: set the flag, start initializeTools in a goroutine, write nothing
DoInitialized ==
    \E id \in IdPool \cup {NilId}, m \in {"initialized", "notifications/initialized"} :
        /\ Len(passes) < MaxPasses
        /\ Recv(Request(id, m, NoParams))
        /\ initialized' = TRUE
        /\ passes' = Append(passes, NewPass)
        /\ Reply(<<>>)
        /\ UNCHANGED tools

\* handleListTools
DoListTools ==
    \E id \in IdPool \cup {NilId} :
        /\ Recv(Request(id, "tools/list", NoParams))
        /\ Reply(<<ResultResponse(id, "tools", FALSE, {t.name : t \in GetAllTools(tools)})>>)
        /\ UNCHANGED <<tools, initialized, passes>>

\* handleCallTool up to the outbound call
DoCallTool ==
    \E id \in IdPool \cup {NilId}, ps \in CallParamsPool :
        /\ Recv(Request(id, "tools/call", ps))
        /\ IF ~ps.ok
           THEN Reply(<<ErrorResponse(id, -32602, "Invalid params")>>)
           ELSE IF GetTool(tools, ps.name) = NilTool
           THEN Reply(<<ErrorResponse(id, -32601, "Tool not found")>>)
           ELSE /\ callTool' = GetTool(tools, ps.name)
                /\ written' = <<>>
                /\ srvPc' = "calling"
                /\ clPc' = "build"
                /\ clEndpoint' = EndpointOf(GetTool(tools, ps.name))
                /\ clArgs' = ps.args
                /\ clUrlOk' = ps.urlOk
                /\ attempt' = 0
                /\ attempts' = 0
                /\ outcomes' = <<>>
                /\ lastErr' = "nil"
                /\ slept' = 0
                /\ bodies' = <<>>
                /\ clRet' = NoRet
                /\ UNCHANGED cfgRetries
        /\ UNCHANGED <<tools, initialized, passes>>

\* handleListPrompts, handleListResources
DoListStub ==
    \E id \in IdPool \cup {NilId}, m \in {"prompts/list", "resources/list"} :
        /\ Recv(Request(id, m, NoParams))
        /\ Reply(<<ResultResponse(id, m, FALSE, {})>>)
        /\ UNCHANGED <<tools, initialized, passes>>

\* handleGetPrompt, handleReadResource
DoGetStub ==
    \E id \in IdPool \cup {NilId}, m \in {"prompts/get", "resources/read"} :
        /\ Recv(Request(id, m, NoParams))
        /\ Reply(<<ErrorResponse(id, -32601,
                      IF m = "prompts/get" THEN "Prompt not found" ELSE "Resource not found")>>)
        /\ UNCHANGED <<tools, initialized, passes>>

\* handleRequest, default branch
DoUnknownMethod ==
    \E id \in IdPool \cup {NilId}, m \in UnknownMethods :
        /\ Recv(Request(id, m, NoParams))
        /\ Reply(UnknownMethodReply(Request(id, m, NoParams)))
        /\ UNCHANGED <<tools, initialized, passes>>

\* what the remote API does to the calls of the stdio server: no response, a
\* success, a client error, a retryable server error
StdioOutcomes == {NetErr, HTTPAnswer(200), HTTPAnswer(404), HTTPAnswer(503)}

\* the outbound call of handleCallTool goes on
StdioClientStep ==
    /\ srvPc = "calling"
    /\ \/ ClientBuild
       \/ \E o \in StdioOutcomes : ClientAttempt(o)
       \/ ClientExhausted
    /\ UNCHANGED <<regVars, concVars, stdioVars>>

\* ExecuteRequest returned: handleCallTool writes the result
DoCallReturn ==
    /\ srvPc = "calling"
    /\ clPc = "done"
    /\ written' = CallToolReply(cur.id, clRet)
    /\ srvPc' = "read"
    /\ UNCHANGED <<regVars, concVars, httpVars, cfgMaxTools, initialized, cur, callTool, passes>>

\* buildRequest panicked: nothing recovers in handleMessages, the process dies
DoCallPanic ==
    /\ srvPc = "calling"
    /\ clPc = "panic"
    /\ srvPc' = "crashed"
    /\ UNCHANGED <<regVars, concVars, httpVars, cfgMaxTools, initialized, cur, written,
                   callTool, passes>>

\* scanner.Scan returns false: end of input
DoEof ==
    /\ srvPc = "read"
    /\ srvPc' = "eof"
    /\ UNCHANGED <<regVars, concVars, httpVars, cfgMaxTools, initialized, cur, written,
                   callTool, passes>>

\* initializeTools, one RegisterTool of its loop (mcp.go:171-190) and, after a
\* document's last tool, the max-tools check (mcp.go:193-196)
PassStep(k) ==
    /\ srvPc # "crashed"
    /\ ~passes[k].done
    /\ LET ps == passes[k]
           doc == GenDocs[ps.doc]
           r == RegisterTool(tools, doc[ps.idx])
           count == IF r.err = "nil" THEN ps.count + 1 ELSE ps.count
           lastOfDoc == ps.idx = Len(doc)
           stop == \/ cfgMaxTools > 0 /\ count >= cfgMaxTools
                   \/ ps.doc = Len(GenDocs)
       IN /\ tools' = r.tools
          /\ passes' = [passes EXCEPT ![k] =
                          IF ~lastOfDoc
                          THEN [ps EXCEPT !.idx = ps.idx + 1, !.count = count]
                          ELSE IF stop
                          THEN [ps EXCEPT !.count = count, !.done = TRUE]
                          ELSE [doc |-> ps.doc + 1, idx |-> 1, count |-> count, done |-> FALSE]]
    /\ UNCHANGED <<prompts, resources, uriIndex, ret, concVars, httpVars, cfgMaxTools,
                   srvPc, initialized, cur, written, callTool>>

DoPassStep == \E k \in 1..Len(passes) : PassStep(k)

(***************************************************************************)
(* The SSE/HTTP server (package sse in src/pkg/sse).                       *)
(*                                                                         *)
(* Time is counted in periods of 30 seconds, the period of the heartbeat   *)
(* ticker of a connection and of the ticker of the cleanup sweep.  A       *)
(* section of code that runs with clientsMutex held is one step: none of   *)
(* them blocks.  A Write on a client's stream succeeds, fails or blocks    *)
(* for good, depending on the connection.                                  *)
(***************************************************************************)

\* the last instant of the model's clock
MaxTime == 6

\* how many events of a stream the model records (its head)
MaxStream == 2

\* 2*time.Minute in ticker periods of 30*time.Second
StaleTicks == 4

\* the connections opened on GET /events, numbered in the order they arrive
SSEClientIds == {1, 2}

\* the POST /tools/{name}/execute requests
Execs == {1}

\* the tools SSEServer.initializeTools has registered before the server listens
SSETools == MapPut(EmptyMap, "a", [name |-> "a", src |-> 1])

\* what client.Writer.Write does on a connection
WriteOutcomes(c) ==
    CASE conn[c] = "live" -> {"ok"}
      [] conn[c] = "dead" -> {"ok", "block", "fail"}
      [] OTHER -> {"fail"}

\* the head of a stream after one more event
StreamAppend(s, type) == IF Len(s) < MaxStream THEN Append(s, type) ELSE s

\* the body of an execute request: a JSON object that decodes into the request
\* struct, text that is no JSON, or JSON of another type (an array)
BodyKinds == {"object", "notjson", "array"}

ExecRequest(name, body, args, net) ==
    [name |-> name, body |-> body, args |-> args, net |-> net]

NoExecRequest == ExecRequest("", "object", {}, NetErr)

\* what the remote API finally answers to the outbound call of an execute request
ExecOutcomes == {NetErr, HTTPAnswer(200), HTTPAnswer(503)}

\* the execute requests of the model; the fields a request's handling never
\* reads are left at their zero value
ExecRequestPool ==
    {ExecRequest("b", b, {}, NetErr) : b \in BodyKinds}
        \cup {ExecRequest("a", b, {}, NetErr) : b \in {"notjson", "array"}}
        \cup {ExecRequest("a", "object", a, NetErr) : a \in {{}, {"requestBody"}, {"p"}}}
        \cup {ExecRequest("a", "object", {"p", "requestBody"}, o) : o \in ExecOutcomes}

\* Client.ExecuteRequest as its callers see it: a panic, an error or the
\* response of the last attempt (`last` is what the network did to that attempt)
ExecuteRequestResult(endpoint, arguments, urlOk, last) ==
    LET b == BuildRequest(endpoint, arguments, urlOk) IN
      IF b = "panic" THEN [kind |-> "panic", status |-> 0, err |-> "nil", named |-> 0]
      ELSE IF b # "ok" THEN [kind |-> "error", status |-> 0, err |-> b, named |-> 0]
      ELSE IF last = NetErr
      THEN [kind |-> "error", status |-> 0, err |-> "exhausted", named |-> 0]
      ELSE [kind |-> "response", status |-> last.status, err |-> "nil", named |-> 0]


\* the SSE server's variables while there is no SSE server
IdleSSE ==
    /\ clients = {}
    /\ hPc = [c \in SSEClientIds |-> "idle"]
    /\ ctxDone = [c \in SSEClientIds |-> FALSE]
    /\ lastSeen = [c \in SSEClientIds |-> 0]
    /\ conn = [c \in SSEClientIds |-> "live"]
    /\ stream = [c \in SSEClientIds |-> <<>>]
    /\ late = [c \in SSEClientIds |-> FALSE]
    /\ now = 0
    /\ hbDue = [c \in SSEClientIds |-> FALSE]
    /\ sweepDue = FALSE
    /\ stopped = FALSE
    /\ deadSweeps = [c \in SSEClientIds |-> 0]
    /\ exPc = [e \in Execs |-> "idle"]
    /\ exReq = [e \in Execs |-> NoExecRequest]
    /\ exStatus = [e \in Execs |-> 0]
    /\ exSnap = [e \in Execs |-> {}]
    /\ sendPc = [e \in Execs |-> [c \in SSEClientIds |-> "none"]]

\* sendEventToClient called by the connection's own handler, which goes on at
\* `next`: nothing when the context is done, else the Write; a failed Write
\* cancels the context, a blocked one holds the handler
HandlerSend(c, type, next) ==
    IF ctxDone[c]
    THEN /\ hPc' = [hPc EXCEPT ![c] = next]
         /\ UNCHANGED <<ctxDone, stream>>
    ELSE \E o \in WriteOutcomes(c) :
            CASE o = "ok" ->
                   /\ stream' = [stream EXCEPT ![c] = StreamAppend(@, type)]
                   /\ hPc' = [hPc EXCEPT ![c] = next]
                   /\ UNCHANGED ctxDone
              [] o = "fail" ->
                   /\ ctxDone' = [ctxDone EXCEPT ![c] = TRUE]
                   /\ hPc' = [hPc EXCEPT ![c] = next]
                   /\ UNCHANGED stream
              [] OTHER ->
                   /\ hPc' = [hPc EXCEPT ![c] = "blocked"]
                   /\ UNCHANGED <<ctxDone, stream>>

\* handleSSE, handlers.go:49-65: the client is created and put in the map
HConnect(c) ==
    /\ ~stopped
    /\ hPc[c] = "idle"
    /\ IF c = 1 THEN TRUE ELSE hPc[c - 1] # "idle"
    /\ hPc' = [hPc EXCEPT ![c] = "connected"]
    /\ lastSeen' = [lastSeen EXCEPT ![c] = now]
    /\ clients' = clients \cup {c}
    /\ UNCHANGED <<ctxDone, conn, stream, late, now, hbDue, sweepDue, stopped, deadSweeps,
                   exPc, exReq, exStatus, exSnap, sendPc>>

\* handlers.go:70-80: the connected event
HSendConnected(c) ==
    /\ hPc[c] = "connected"
    /\ HandlerSend(c, "connected", "tools")
    /\ UNCHANGED <<clients, lastSeen, conn, late, now, hbDue, sweepDue, stopped, deadSweeps,
                   exPc, exReq, exStatus, exSnap, sendPc>>

\* handlers.go:83-101: the tools event, then the heartbeat ticker is started
HSendTools(c) ==
    /\ hPc[c] = "tools"
    /\ HandlerSend(c, "tools", "loop")
    /\ UNCHANGED <<clients, lastSeen, conn, late, now, hbDue, sweepDue, stopped, deadSweeps,
                   exPc, exReq, exStatus, exSnap, sendPc>>

\* handlers.go:111-117: a heartbeat tick: LastSeen is set, then the event is sent
HHeartbeat(c) ==
    /\ hPc[c] = "loop"
    /\ hbDue[c]
    /\ hbDue' = [hbDue EXCEPT ![c] = FALSE]
    /\ lastSeen' = [lastSeen EXCEPT ![c] = now]
    /\ HandlerSend(c, "heartbeat", "loop")
    /\ UNCHANGED <<clients, conn, late, now, sweepDue, stopped, deadSweeps,
                   exPc, exReq, exStatus, exSnap, sendPc>>

\* handlers.go:105-110: the context is done: the client is deleted, the handler returns
HCtxDone(c) ==
    /\ hPc[c] = "loop"
    /\ ctxDone[c]
    /\ clients' = clients \ {c}
    /\ hPc' = [hPc EXCEPT ![c] = "returned"]
    /\ hbDue' = [hbDue EXCEPT ![c] = FALSE]
    /\ UNCHANGED <<ctxDone, lastSeen, conn, stream, late, now, sweepDue, stopped, deadSweeps,
                   exPc, exReq, exStatus, exSnap, sendPc>>

\* the peer closes the connection: net/http cancels r.Context(), the parent of
\* the client's context
ClientDisconnect(c) ==
    /\ hPc[c] \notin {"idle", "returned"}
    /\ conn[c] # "gone"
    /\ conn' = [conn EXCEPT ![c] = "gone"]
    /\ ctxDone' = [ctxDone EXCEPT ![c] = TRUE]
    /\ UNCHANGED <<clients, hPc, lastSeen, stream, late, now, hbDue, sweepDue, stopped,
                   deadSweeps, exPc, exReq, exStatus, exSnap, sendPc>>

\* the peer goes away without closing: nothing reaches the server
ConnDies(c) ==
    /\ hPc[c] \notin {"idle", "returned"}
    /\ conn[c] = "live"
    /\ conn' = [conn EXCEPT ![c] = "dead"]
    /\ UNCHANGED <<clients, hPc, ctxDone, lastSeen, stream, late, now, hbDue, sweepDue,
                   stopped, deadSweeps, exPc, exReq, exStatus, exSnap, sendPc>>

\* 30 seconds pass: the tickers fire.  The handlers that wait in their select
\* and the sweep have served the previous tick.
Tick ==
    /\ now < MaxTime
    /\ ~sweepDue
    /\ \A c \in SSEClientIds : hPc[c] = "loop" => ~hbDue[c]
    /\ now' = now + 1
    /\ hbDue' = [c \in SSEClientIds |-> hPc[c] = "loop"]
    /\ sweepDue' = ~stopped
    /\ UNCHANGED <<clients, hPc, ctxDone, lastSeen, conn, stream, late, stopped, deadSweeps,
                   exPc, exReq, exStatus, exSnap, sendPc>>

\* cleanupClients, server.go:271-281: one sweep
Sweep ==
    /\ sweepDue
    /\ ~stopped
    /\ LET stale == {c \in clients : now - lastSeen[c] > StaleTicks} IN
         /\ ctxDone' = [c \in SSEClientIds |-> ctxDone[c] \/ c \in stale]
         /\ clients' = clients \ stale
         /\ deadSweeps' = [c \in SSEClientIds |->
                             IF conn[c] = "dead" /\ c \in clients \ stale
                             THEN deadSweeps[c] + 1 ELSE deadSweeps[c]]
    /\ sweepDue' = FALSE
    /\ UNCHANGED <<hPc, lastSeen, conn, stream, late, now, hbDue, stopped,
                   exPc, exReq, exStatus, exSnap, sendPc>>

\* stop, server.go:178-186: every client in the map is cancelled, the map is
\* replaced by an empty one, the sweep is told to end
SSEStop ==
    /\ ~stopped
    /\ stopped' = TRUE
    /\ ctxDone' = [c \in SSEClientIds |-> ctxDone[c] \/ c \in clients]
    /\ clients' = {}
    /\ sweepDue' = FALSE
    /\ UNCHANGED <<hPc, lastSeen, conn, stream, late, now, hbDue, deadSweeps,
                   exPc, exReq, exStatus, exSnap, sendPc>>
\* a broadcast that leaves out the clients whose context is done
BroadcastTargets_SkipDone(cl) == {c \in cl : ~ctxDone[c]}

\* broadcastEvent: one goroutine for each client of the map
BroadcastTargets(cl) == cl

\* handleExecuteTool up to the broadcast, handlers.go:176-231: the HTTP status
\* it answers with (0 while it has not answered) and where it goes on
ExecuteTool(req) ==
    LET tool == GetTool(SSETools, req.name) IN
      IF tool = NilTool THEN [status |-> 404, pc |-> "done"]
      ELSE IF req.body # "object" THEN [status |-> 400, pc |-> "done"]
      ELSE LET r == ExecuteRequestResult(EndpointOf(tool), req.args, TRUE, req.net) IN
             CASE r.kind = "panic" -> [status |-> 0, pc |-> "panicked"]
               [] r.kind = "error" -> [status |-> 500, pc |-> "done"]
               [] OTHER -> [status |-> 0, pc |-> "broadcast"]

\* POST /tools/{name}/execute arrives and is handled up to the broadcast; a
\* panic of the handler is recovered by net/http, which closes the connection
\* without a response
ExHandle(e) ==
    /\ ~stopped
    /\ exPc[e] = "idle"
    /\ \E req \in ExecRequestPool :
          /\ exReq' = [exReq EXCEPT ![e] = req]
          /\ exStatus' = [exStatus EXCEPT ![e] = ExecuteTool(req).status]
          /\ exPc' = [exPc EXCEPT ![e] = ExecuteTool(req).pc]
    /\ UNCHANGED <<clients, hPc, ctxDone, lastSeen, conn, stream, late, now, hbDue, sweepDue,
                   stopped, deadSweeps, exSnap, sendPc>>

\* handlers.go:244, broadcastEvent: under the read lock, go sendEventToClient
\* for each client of the map
ExBroadcast(e) ==
    /\ exPc[e] = "broadcast"
    /\ exSnap' = [exSnap EXCEPT ![e] = clients]
    /\ sendPc' = [sendPc EXCEPT ![e] =
                     [c \in SSEClientIds |->
                        IF c \in BroadcastTargets(clients) THEN "check" ELSE "none"]]
    /\ exPc' = [exPc EXCEPT ![e] = "respond"]
    /\ UNCHANGED <<clients, hPc, ctxDone, lastSeen, conn, stream, late, now, hbDue, sweepDue,
                   stopped, deadSweeps, exReq, exStatus>>

\* handlers.go:247-248: the result is written with status 200
ExRespond(e) ==
    /\ exPc[e] = "respond"
    /\ exStatus' = [exStatus EXCEPT ![e] = 200]
    /\ exPc' = [exPc EXCEPT ![e] = "done"]
    /\ UNCHANGED <<clients, hPc, ctxDone, lastSeen, conn, stream, late, now, hbDue, sweepDue,
                   stopped, deadSweeps, exReq, exSnap, sendPc>>

\* a broadcast goroutine, sendEventToClient, handlers.go:281-285: the context check
SendCheck(e, c) ==
    /\ sendPc[e][c] = "check"
    /\ sendPc' = [sendPc EXCEPT ![e][c] = IF ctxDone[c] THEN "skipped" ELSE "write"]
    /\ UNCHANGED <<clients, hPc, ctxDone, lastSeen, conn, stream, late, now, hbDue, sweepDue,
                   stopped, deadSweeps, exPc, exReq, exStatus, exSnap>>

\* a broadcast goroutine, handlers.go:302-308: the Write, whatever has become
\* of the client and of its handler since the check
SendWrite(e, c) ==
    /\ sendPc[e][c] = "write"
    /\ IF hPc[c] = "returned"
       THEN /\ late' = [late EXCEPT ![c] = TRUE]
            /\ sendPc' = [sendPc EXCEPT ![e][c] = "late"]
            /\ UNCHANGED <<ctxDone, stream>>
       ELSE \E o \in WriteOutcomes(c) :
               CASE o = "ok" ->
                      /\ stream' = [stream EXCEPT ![c] = StreamAppend(@, "tool_execution")]
                      /\ sendPc' = [sendPc EXCEPT ![e][c] = "written"]
                      /\ UNCHANGED <<ctxDone, late>>
                 [] o = "fail" ->
                      /\ ctxDone' = [ctxDone EXCEPT ![c] = TRUE]
                      /\ sendPc' = [sendPc EXCEPT ![e][c] = "failed"]
                      /\ UNCHANGED <<stream, late>>
                 [] OTHER ->
                      /\ sendPc' = [sendPc EXCEPT ![e][c] = "blocked"]
                      /\ UNCHANGED <<ctxDone, stream, late>>
    /\ UNCHANGED <<clients, hPc, lastSeen, conn, now, hbDue, sweepDue, stopped, deadSweeps,
                   exPc, exReq, exStatus, exSnap>>


(***************************************************************************)
(* The scanner (src/pkg/swagger/scanner.go): ScanPathsAndURLs.             *)
(*                                                                         *)
(* A source is described by what the file system or the network makes of   *)
(* it.  A document is named by the source it came from and its rank in     *)
(* that source, an error by the source it was recorded for.                *)
(***************************************************************************)

\* the longest list of paths given to a scan
MaxPaths == 3

\* the longest list of URLs given to a scan
MaxScanURLs == 1

\* what a path is on disk:
\*   "abs_error"       filepath.Abs fails
\*   "missing"         os.Stat fails
\*   "file_doc"        a file that reads and parses
\*   "file_bad"        a file with an unsupported extension, or that does not read or parse
\*   "dir_mixed"       a directory holding one file that parses and one that does not
\*   "dir_unreadable"  a directory that cannot be listed
PathKinds == {"abs_error", "missing", "file_doc", "file_bad", "dir_mixed", "dir_unreadable"}

\* what a URL is on the network:
\*   "url_doc"   answers 200 with a JSON or YAML object
\*   "url_fail"  does not parse, is not fetched, answers another status or another content
\*   "url_list"  answers an array of two URLs, one "url_doc" and one "url_fail"
URLKinds == {"url_doc", "url_fail", "url_list"}

\* SwaggerDocumentInfo: the k-th document of source i
Doc(i, k) == [src |-> i, k |-> k]

\* ScanError recorded for source i
ScanError(i) == [src |-> i]

\* types.ScanResult with the error returned next to it
ScanResult(err, documents, errors, files) ==
    [err |-> err, documents |-> documents, errors |-> errors, files |-> files]

\* scanSinglePath, with scanDirectory and scanSingleFile.  filepath.Walk calls
\* the walk function with the error of a directory it cannot list, and the
\* walk function returns nil for it: nothing is recorded.
ScanSinglePath(kind, i) ==
    CASE kind = "abs_error" -> ScanResult(TRUE, <<>>, <<>>, 0)
      [] kind = "missing" -> ScanResult(FALSE, <<>>, <<ScanError(i)>>, 0)
      [] kind = "file_doc" -> ScanResult(FALSE, <<Doc(i, 1)>>, <<>>, 1)
      [] kind = "file_bad" -> ScanResult(FALSE, <<>>, <<ScanError(i)>>, 1)
      [] kind = "dir_mixed" -> ScanResult(FALSE, <<Doc(i, 1)>>, <<ScanError(i)>>, 2)
      [] OTHER -> ScanResult(FALSE, <<>>, <<>>, 0)

\* scanSingleURL as ScanPathsAndURLs sees it; for an array, what
\* processURLArray has collected
ScanSingleURL(kind, i) ==
    CASE kind = "url_doc" -> ScanResult(FALSE, <<Doc(i, 1)>>, <<>>, 1)
      [] kind = "url_list" -> ScanResult(FALSE, <<Doc(i, 1)>>, <<ScanError(i)>>, 1)
      [] OTHER -> ScanResult(TRUE, <<>>, <<>>, 0)

\* one iteration of either loop of ScanPathsAndURLs on the result of a source
Accumulate(result, i) ==
    IF result.err
    THEN /\ allErrors' = Append(allErrors, ScanError(i))
         /\ UNCHANGED <<allDocuments, totalFiles>>
    ELSE /\ allDocuments' = allDocuments \o result.documents
         /\ allErrors' = allErrors \o result.errors
         /\ totalFiles' = totalFiles + result.files

NoScanRet == [returned |-> FALSE, err |-> "nil", validDocuments |-> 0, errors |-> 0]

\* the scanner's variables while no scan runs
IdleScan ==
    /\ paths = <<>>
    /\ urls = <<>>
    /\ scanPc = "none"
    /\ scanIdx = 0
    /\ allDocuments = <<>>
    /\ allErrors = <<>>
    /\ totalFiles = 0
    /\ scanRet = NoScanRet

\* scanner.go:106-119: the loop over the paths
ScanNextPath ==
    /\ scanPc = "paths"
    /\ scanIdx < Len(paths)
    /\ Accumulate(ScanSinglePath(paths[scanIdx + 1], scanIdx + 1), scanIdx + 1)
    /\ scanIdx' = scanIdx + 1
    /\ UNCHANGED <<paths, urls, scanPc, scanRet>>

\* the paths are done: on to the URLs
ScanPathsDone ==
    /\ scanPc = "paths"
    /\ scanIdx = Len(paths)
    /\ scanPc' = "urls"
    /\ scanIdx' = 0
    /\ UNCHANGED <<paths, urls, allDocuments, allErrors, totalFiles, scanRet>>

\* scanner.go:122-135: the loop over the URLs
ScanNextURL ==
    /\ scanPc = "urls"
    /\ scanIdx < Len(urls)
    /\ Accumulate(ScanSingleURL(urls[scanIdx + 1], Len(paths) + scanIdx + 1),
                  Len(paths) + scanIdx + 1)
    /\ scanIdx' = scanIdx + 1
    /\ UNCHANGED <<paths, urls, scanPc, scanRet>>

\* scanner.go:137-155: the stats, and the result is returned with a nil error
ScanReturn ==
    /\ scanPc = "urls"
    /\ scanIdx = Len(urls)
    /\ scanPc' = "done"
    /\ scanRet' = [returned |-> TRUE, err |-> "nil",
                   validDocuments |-> Len(allDocuments), errors |-> Len(allErrors)]
    /\ UNCHANGED <<paths, urls, scanIdx, allDocuments, allErrors, totalFiles>>

(***************************************************************************)
(* The scanner: processURLArray, the concurrent expansion of a document    *)
(* that is an array of URLs.  The fetch of each URL of the array is        *)
(* described by what scanSingleURL returns for it.                         *)
(***************************************************************************)

\* the longest array of the model
MaxItems == 3

\* an item of the array:
\*   "doc"        a URL whose scan returns one document
\*   "fail"       a URL whose scan returns an error
\*   "list"       a URL whose scan returns two documents and one error (an array again)
\*   "notstring"  an item that is no string
\*   "badurl"     a string url.Parse rejects
ItemKinds == {"doc", "fail", "list", "notstring", "badurl"}

\* scanner.go:483-504: the positions of the items that are URLs
ValidItems(items) ==
    SelectSeq([k \in 1..Len(items) |-> k], LAMBDA k : items[k] \in {"doc", "fail", "list"})

\* scanner.go:483-504: one error for each item that is no URL
InitialErrors(items) ==
    [j \in 1..Len(SelectSeq([k \in 1..Len(items) |-> k],
                            LAMBDA k : items[k] \notin {"doc", "fail", "list"})) |->
        ScanError(SelectSeq([k \in 1..Len(items) |-> k],
                            LAMBDA k : items[k] \notin {"doc", "fail", "list"})[j])]

\* scanner.go:539-557: the urlResult a goroutine makes of scanSingleURL's result
URLResult(kind, k) ==
    CASE kind = "doc" -> ScanResult(FALSE, <<Doc(k, 1)>>, <<>>, 1)
      [] kind = "list" -> ScanResult(FALSE, <<Doc(k, 1), Doc(k, 2)>>, <<ScanError(k)>>, 2)
      [] OTHER -> ScanResult(FALSE, <<>>, <<ScanError(k)>>, 0)

\* make(chan urlResult, len(validURLs))
ChanCap == Len(validURLs)

\* a closer that does not wait for the goroutines
WaitDone_NoWait == TRUE

\* wg.Wait() returns
WaitDone == wg = 0

ItemIds == 1..MaxItems

\* the variables of processURLArray while it does not run
IdleArr ==
    /\ urlArray = <<>>
    /\ arrPc = "none"
    /\ validURLs = <<>>
    /\ initialErrors = <<>>
    /\ launched = 0
    /\ gPc = [k \in ItemIds |-> "none"]
    /\ resultChan = <<>>
    /\ chanClosed = FALSE
    /\ wg = 0
    /\ closerPc = "none"
    /\ arrDocuments = <<>>
    /\ arrErrors = <<>>
    /\ arrFiles = 0

\* scanner.go:480-528: the items are checked; without a URL among them the
\* function returns the errors, else it makes the channel
ArrValidate ==
    /\ arrPc = "validate"
    /\ validURLs' = ValidItems(urlArray)
    /\ initialErrors' = InitialErrors(urlArray)
    /\ IF ValidItems(urlArray) = <<>>
       THEN /\ arrPc' = "returned"
            /\ arrErrors' = InitialErrors(urlArray)
       ELSE /\ arrPc' = "launch"
            /\ UNCHANGED arrErrors
    /\ UNCHANGED <<urlArray, launched, gPc, resultChan, chanClosed, wg, closerPc,
                   arrDocuments, arrFiles>>

\* scanner.go:531-559: wg.Add(1) and the go statement for the next URL
ArrLaunch ==
    /\ arrPc = "launch"
    /\ launched < Len(validURLs)
    /\ wg' = wg + 1
    /\ gPc' = [gPc EXCEPT ![validURLs[launched + 1]] = "fetch"]
    /\ launched' = launched + 1
    /\ UNCHANGED <<urlArray, arrPc, validURLs, initialErrors, resultChan, chanClosed,
                   closerPc, arrDocuments, arrErrors, arrFiles>>

\* scanner.go:562-570: the closing goroutine is started, the collection begins
\* with the initial errors
ArrStartCollect ==
    /\ arrPc = "launch"
    /\ launched = Len(validURLs)
    /\ closerPc' = "wait"
    /\ arrErrors' = initialErrors
    /\ arrPc' = "collect"
    /\ UNCHANGED <<urlArray, validURLs, initialErrors, launched, gPc, resultChan, chanClosed,
                   wg, arrDocuments, arrFiles>>

\* a goroutine: scanSingleURL(url) returns
GFetch(k) ==
    /\ gPc[k] = "fetch"
    /\ gPc' = [gPc EXCEPT ![k] = "send"]
    /\ UNCHANGED <<urlArray, arrPc, validURLs, initialErrors, launched, resultChan,
                   chanClosed, wg, closerPc, arrDocuments, arrErrors, arrFiles>>

\* a goroutine: resultChan <- urlResult{...}; a send on a closed channel panics
GSend(k) ==
    /\ gPc[k] = "send"
    /\ IF chanClosed
       THEN /\ gPc' = [gPc EXCEPT ![k] = "panic"]
            /\ UNCHANGED resultChan
       ELSE /\ Len(resultChan) < ChanCap
            /\ resultChan' = Append(resultChan, URLResult(urlArray[k], k))
            /\ gPc' = [gPc EXCEPT ![k] = "sent"]
    /\ UNCHANGED <<urlArray, arrPc, validURLs, initialErrors, launched, chanClosed, wg,
                   closerPc, arrDocuments, arrErrors, arrFiles>>

\* a goroutine returns: the deferred wg.Done()
GDone(k) ==
    /\ gPc[k] = "sent"
    /\ wg' = wg - 1
    /\ gPc' = [gPc EXCEPT ![k] = "done"]
    /\ UNCHANGED <<urlArray, arrPc, validURLs, initialErrors, launched, resultChan,
                   chanClosed, closerPc, arrDocuments, arrErrors, arrFiles>>

\* the closing goroutine: wg.Wait() returns, close(resultChan)
CloserClose ==
    /\ closerPc = "wait"
    /\ WaitDone
    /\ chanClosed' = TRUE
    /\ closerPc' = "closed"
    /\ UNCHANGED <<urlArray, arrPc, validURLs, initialErrors, launched, gPc, resultChan, wg,
                   arrDocuments, arrErrors, arrFiles>>

\* scanner.go:572-576: one result is received
ArrReceive ==
    /\ arrPc = "collect"
    /\ resultChan # <<>>
    /\ arrDocuments' = arrDocuments \o Head(resultChan).documents
    /\ arrErrors' = arrErrors \o Head(resultChan).errors
    /\ arrFiles' = arrFiles + Head(resultChan).files
    /\ resultChan' = Tail(resultChan)
    /\ UNCHANGED <<urlArray, arrPc, validURLs, initialErrors, launched, gPc, chanClosed, wg,
                   closerPc>>

\* scanner.go:572, 583-592: the channel is closed and empty: the range ends
\* and the result is returned
ArrReturn ==
    /\ arrPc = "collect"
    /\ resultChan = <<>>
    /\ chanClosed
    /\ arrPc' = "returned"
    /\ UNCHANGED <<urlArray, validURLs, initialErrors, launched, gPc, resultChan, chanClosed,
                   wg, closerPc, arrDocuments, arrErrors, arrFiles>>

(***************************************************************************)
(* The scanner: the recursion of scanSingleURL through processURLArray.    *)
(* A call of scanSingleURL is named by its chain: the URLs of the calls    *)
(* it is nested in, from the URL given to the scan down to its own.        *)
(***************************************************************************)

\* the remote documents
RemoteURLs == {1, 2}

\* the deepest chain of calls the model follows
MaxChain == 3

\* what a URL answers: a document, a failure, or an array of URLs
Contents ==
    {[kind |-> "doc"], [kind |-> "fail"]} \cup
    {[kind |-> "list", list |-> l] : l \in (SUBSET RemoteURLs) \ {{}}}

IsList(content) == content.kind = "list"

\* the calls started by the call of chain ch
Children(ch) == {c \in DOMAIN calls : Len(c) = Len(ch) + 1 /\ SubSeq(c, 1, Len(ch)) = ch}

\* the variables of the recursion while no scan runs
IdleRec ==
    /\ world = [u \in RemoteURLs |-> [kind |-> "doc"]]
    /\ calls = <<>>

\* scanSingleURL of the chain's last URL fetches and parses (scanner.go:347-405).
\* A document or a failure: it returns.  An array (scanner.go:408-411): process-
\* URLArray starts one scanSingleURL per URL, without looking at the chain.
RecFetch(ch) ==
    /\ calls[ch] = "fetch"
    /\ IF IsList(world[ch[Len(ch)]])
       THEN /\ Len(ch) < MaxChain
            /\ calls' = [c \in DOMAIN calls \cup
                                 {Append(ch, u) : u \in world[ch[Len(ch)]].list} |->
                            IF c = ch THEN "wait"
                            ELSE IF c \in DOMAIN calls THEN calls[c] ELSE "fetch"]
       ELSE calls' = [calls EXCEPT ![ch] = "returned"]
    /\ UNCHANGED world

\* processURLArray has received the results of all its goroutines: it returns
RecJoin(ch) ==
    /\ calls[ch] = "wait"
    /\ \A c \in Children(ch) : calls[c] = "returned"
    /\ calls' = [calls EXCEPT ![ch] = "returned"]
    /\ UNCHANGED world

(***************************************************************************)
(* The scanner: version inference.  A string is a sequence of characters,  *)
(* a path the sequence of its segments; the regular expressions are the    *)
(* operators below.                                                        *)
(***************************************************************************)

\* the longest path of the model, in segments
MaxParts == 2

Digits == {"1", "2", "3"}

\* the longest run of digits of s that starts at position i  (\d+, greedy)
RECURSIVE DigitRun(_, _)
DigitRun(s, i) ==
    IF i <= Len(s) /\ s[i] \in Digits THEN <<s[i]>> \o DigitRun(s, i + 1) ELSE <<>>

\* ^v(\d+)$ : the submatch, or <<>> when the expression does not match
MatchVersionSegment(s) ==
    IF Len(s) >= 2 /\ s[1] = "v" /\ Len(DigitRun(s, 2)) = Len(s) - 1
    THEN DigitRun(s, 2) ELSE <<>>

\* v(\d+) : the submatch of the leftmost match, or <<>>
MatchVersionFragment(s) ==
    LET at == {i \in 1..Len(s) : s[i] = "v" /\ DigitRun(s, i + 1) # <<>>} IN
      IF at = {} THEN <<>>
      ELSE DigitRun(s, (CHOOSE i \in at : \A j \in at : i <= j) + 1)

\* ^v?(\d+) : the submatch, or <<>>
MatchDeclaredVersion(s) ==
    IF s # <<>> /\ s[1] = "v" THEN DigitRun(s, 2) ELSE DigitRun(s, 1)

\* ^(\d+) : the submatch, or <<>>
MatchOpenAPIVersion(s) == DigitRun(s, 1)

\* the first part of the path the segment expression matches, or 0
FirstVersionSegment(parts) ==
    LET at == {i \in 1..Len(parts) : MatchVersionSegment(parts[i]) # <<>>} IN
      IF at = {} THEN 0 ELSE CHOOSE i \in at : \A j \in at : i <= j

\* extractVersionFromPath on the parts of filePath; filepath.Base is the last part
ExtractVersionFromPath(parts) ==
    IF FirstVersionSegment(parts) # 0
    THEN MatchVersionSegment(parts[FirstVersionSegment(parts)])
    ELSE IF MatchVersionFragment(parts[Len(parts)]) # <<>>
    THEN MatchVersionFragment(parts[Len(parts)])
    ELSE <<"1">>

\* extractVersionFromURL on the parts of the URL's path (a URL that parses)
ExtractVersionFromURL(parts) ==
    IF FirstVersionSegment(parts) # 0
    THEN MatchVersionSegment(parts[FirstVersionSegment(parts)])
    ELSE IF Len(parts) > 0 /\ MatchVersionFragment(parts[Len(parts)]) # <<>>
    THEN MatchVersionFragment(parts[Len(parts)])
    ELSE <<"1">>

\* a field of the document that is absent or no string
Absent == <<"absent">>

\* extractVersionFromDocument: info.version, then openapi, then "1"
ExtractVersionFromDocument(document) ==
    IF document.infoVersion # Absent /\ MatchDeclaredVersion(document.infoVersion) # <<>>
    THEN MatchDeclaredVersion(document.infoVersion)
    ELSE IF document.openapi # Absent /\ MatchOpenAPIVersion(document.openapi) # <<>>
    THEN MatchOpenAPIVersion(document.openapi)
    ELSE <<"1">>

\* the Version of the SwaggerDocumentInfo: scanSingleFile (scanner.go:290) for a
\* local file, scanSingleURL (scanner.go:420-423) for a remote document
InferVersion(input) ==
    IF ~input.remote
    THEN ExtractVersionFromPath(input.parts)
    ELSE IF ExtractVersionFromURL(input.parts) = <<>>
    THEN ExtractVersionFromDocument(input.document)
    ELSE ExtractVersionFromURL(input.parts)

\* path segments and file names
SegmentPool ==
    { <<"a">>, <<"v", "2">>, <<"v", "1", "3">>, <<"v", "2", "a">>, <<"a", "v", "3">>,
      <<"v">>, <<"v", "v", "1">> }

\* the version fields of a document
DocumentPool ==
    [infoVersion : {Absent, <<"3">>, <<"v", "2", "a">>, <<"a">>},
     openapi : {Absent, <<"3", "a">>}]

VersionInputs ==
    [remote : BOOLEAN,
     parts : UNION {[1..n -> SegmentPool] : n \in 1..MaxParts},
     document : DocumentPool]

NoVersion == <<"none">>

\* the variables of version inference while no document is scanned
IdleVer ==
    /\ verIn = [remote |-> FALSE, parts |-> << <<"a">> >>,
                document |-> [infoVersion |-> Absent, openapi |-> Absent]]
    /\ verOut = NoVersion

\* a document is scanned: its Version is inferred
DoInferVersion ==
    \E input \in VersionInputs :
        /\ verIn' = input
        /\ verOut' = InferVersion(input)

(***************************************************************************)
(* The tool generator (src/pkg/swagger/generator.go).  A string is the     *)
(* sequence of its characters, a path the sequence of its segments.        *)
(***************************************************************************)

\* maxToolNameLength
MaxToolNameLength == 64

\* the characters of [a-z0-9_]
NameChars ==
    {"a", "b", "c", "d", "e", "f", "g", "h", "i", "j", "k", "l", "m", "n", "o", "p", "q",
     "r", "s", "t", "u", "v", "w", "x", "y", "z", "0", "1", "2", "3", "4", "5", "6", "7",
     "8", "9", "_"}

\* strings.ToLower on one character
ToLower(c) ==
    CASE c = "G" -> "g"
      [] c = "W" -> "w"
      [] c = "X" -> "x"
      [] OTHER -> c

\* n times the character c
Repeat(c, n) == [i \in 1..n |-> c]

\* strings.Trim(s, "_")
TrimUnderscores(s) ==
    LET kept == {i \in 1..Len(s) : s[i] # "_"} IN
      IF kept = {} THEN <<>>
      ELSE SubSeq(s, CHOOSE i \in kept : \A j \in kept : i <= j,
                     CHOOSE i \in kept : \A j \in kept : i >= j)

\* strings.TrimSuffix(s, "_")
TrimSuffixUnderscore(s) ==
    IF s # <<>> /\ s[Len(s)] = "_" THEN SubSeq(s, 1, Len(s) - 1) ELSE s

\* strings.TrimSpace
TrimSpace(s) ==
    LET kept == {i \in 1..Len(s) : s[i] # " "} IN
      IF kept = {} THEN <<>>
      ELSE SubSeq(s, CHOOSE i \in kept : \A j \in kept : i <= j,
                     CHOOSE i \in kept : \A j \in kept : i >= j)

\* strings.Split(s, "_")
RECURSIVE SplitUnderscore(_)
SplitUnderscore(s) ==
    LET at == {i \in 1..Len(s) : s[i] = "_"} IN
      IF at = {} THEN <<s>>
      ELSE LET i == CHOOSE x \in at : \A y \in at : x <= y IN
             <<SubSeq(s, 1, i - 1)>> \o SplitUnderscore(SubSeq(s, i + 1, Len(s)))

\* strings.Join(parts, "_")
RECURSIVE JoinUnderscore(_)
JoinUnderscore(parts) ==
    IF parts = <<>> THEN <<>>
    ELSE IF Len(parts) = 1 THEN parts[1]
    ELSE parts[1] \o <<"_">> \o JoinUnderscore(Tail(parts))

\* the regular expression _+ replaced by _
CollapseUnderscores(s) ==
    LET kept == {i \in 1..Len(s) : ~(s[i] = "_" /\ i > 1 /\ s[i - 1] = "_")} IN
      [k \in 1..Cardinality(kept) |->
          s[CHOOSE i \in kept : Cardinality({j \in kept : j <= i}) = k]]

\* sanitizeToolName: lower case, [^a-z0-9_] replaced by _, runs of _ collapsed,
\* _ trimmed at both ends, "unknown_tool" for the empty string
SanitizeToolName(name) ==
    LET lower == [i \in 1..Len(name) |-> ToLower(name[i])]
        replaced == [i \in 1..Len(name) |-> IF lower[i] \in NameChars THEN lower[i] ELSE "_"]
        trimmed == TrimUnderscores(CollapseUnderscores(replaced))
    IN IF trimmed = <<>>
       THEN <<"u", "n", "k", "n", "o", "w", "n", "_", "t", "o", "o", "l">>
       ELSE trimmed

\* abbreviatePathPart: the table of abbreviations (of its keys the model's
\* strings hold "weather" only), else the first 8 characters
AbbreviatePathPart(part) ==
    IF [i \in 1..Len(part) |-> ToLower(part[i])] = <<"w", "e", "a", "t", "h", "e", "r">>
    THEN <<"w", "x">>
    ELSE IF Len(part) > 8 THEN SubSeq(part, 1, 8)
    ELSE part

\* generateCompactPathName's loop for one segment of the path: a placeholder
\* {name} gives the name cut to 6 characters (the four names with an
\* abbreviation of their own do not occur in the model), another segment its
\* abbreviation, which is left out when empty
CleanPart(part) ==
    IF part # <<>> /\ Head(part) = "{" /\ part[Len(part)] = "}"
    THEN LET paramName == SelectSeq(part, LAMBDA c : c \notin {"{", "}"}) IN
           <<IF Len(paramName) > 6 THEN SubSeq(paramName, 1, 6) ELSE paramName>>
    ELSE IF AbbreviatePathPart(part) # <<>> THEN <<AbbreviatePathPart(part)>> ELSE <<>>

RECURSIVE CleanParts(_)
CleanParts(pathParts) ==
    IF pathParts = <<>> THEN <<>>
    ELSE CleanPart(Head(pathParts)) \o CleanParts(Tail(pathParts))

\* generateCompactPathName: the clean parts joined by _, _ and the method in
\* lower case, sanitized
GenerateCompactPathName(endpoint) ==
    SanitizeToolName(JoinUnderscore(CleanParts(endpoint.path)) \o <<"_">> \o endpoint.method)

\* abbreviateToolName.  A slice bound below 0 or beyond the length is a run-time
\* panic: <<"!panic">> stands for it.
Panic == <<"!panic">>

Slice(s, n) == IF n < 0 \/ n > Len(s) THEN Panic ELSE SubSeq(s, 1, n)

AbbreviateToolName(name, maxLength) ==
    IF Len(name) <= maxLength THEN name
    ELSE
      LET parts == SplitUnderscore(name)
          abbreviatedParts == [i \in 1..Len(parts) |-> AbbreviatePathPart(parts[i])]
          abbreviated == JoinUnderscore(abbreviatedParts)
      IN IF Len(abbreviated) <= maxLength THEN abbreviated
         ELSE IF Len(abbreviatedParts) > 2
         THEN LET lastPart == abbreviatedParts[Len(abbreviatedParts)]
                  spaceForFirst == maxLength - Len(lastPart) - 1
                  joined == JoinUnderscore(SubSeq(abbreviatedParts, 1, Len(abbreviatedParts) - 1))
                  firstPartsStr == IF Len(joined) > spaceForFirst
                                   THEN IF Slice(joined, spaceForFirst) = Panic THEN Panic
                                        ELSE TrimSuffixUnderscore(Slice(joined, spaceForFirst))
                                   ELSE joined
              IN IF firstPartsStr = Panic THEN Panic
                 ELSE firstPartsStr \o <<"_">> \o lastPart
         ELSE IF Slice(abbreviated, maxLength) = Panic THEN Panic
         ELSE TrimSuffixUnderscore(Slice(abbreviated, maxLength))

\* generateToolName
GenerateToolName(endpoint, docInfo) ==
    IF endpoint.mcpToolName # <<>> /\ Len(TrimSpace(endpoint.mcpToolName)) <= MaxToolNameLength
    THEN TrimSpace(endpoint.mcpToolName)
    ELSE
      LET baseName == IF endpoint.operationID # <<>>
                      THEN SanitizeToolName(endpoint.operationID)
                      ELSE GenerateCompactPathName(endpoint)
          versionSuffix == IF docInfo.version # <<>> THEN <<"_", "v">> \o docInfo.version
                           ELSE <<>>
          availableLength == MaxToolNameLength - Len(versionSuffix)
          fitted == IF Len(baseName) > availableLength
                    THEN AbbreviateToolName(baseName, availableLength)
                    ELSE baseName
          finalName == fitted \o versionSuffix
      IN IF fitted = Panic THEN Panic
         ELSE IF Len(finalName) > MaxToolNameLength
         THEN TrimSuffixUnderscore(SubSeq(finalName, 1, MaxToolNameLength - 3) \o <<".", ".", ".">>)
         ELSE finalName

\* SwaggerEndpoint, the fields the generator reads
Endpoint(path, operationID, mcpToolName, deprecated, parameters, requestBody) ==
    [path |-> path, method |-> <<"g", "e", "t">>, operationID |-> operationID,
     mcpToolName |-> mcpToolName, deprecated |-> deprecated, parameters |-> parameters,
     requestBody |-> requestBody]

\* the paths /x.json, /x.xml, /Weather/{stationIdent} and a path of 12 long segments
PathPool ==
    { << <<"x", ".", "j", "s", "o", "n">> >>,
      << <<"x", ".", "x", "m", "l">> >>,
      << <<"W", "e", "a", "t", "h", "e", "r">>,
         <<"{", "s", "t", "a", "t", "i", "o", "n", "I", "d", "e", "n", "t", "}">> >>,
      [i \in 1..12 |-> Repeat("s", 9)] }

\* operationId: none, getWx, get-wx!, ___, 70 times a, ten times weather_
OperationIDPool ==
    { <<>>,
      <<"g", "e", "t", "W", "x">>,
      <<"g", "e", "t", "-", "w", "x", "!">>,
      <<"_", "_", "_">>,
      Repeat("a", 70),
      JoinUnderscore([i \in 1..10 |-> <<"w", "e", "a", "t", "h", "e", "r", "s">>]) }

\* x-mcp-tool-name: none, get_wx, "Get Wx", two spaces, 65 times x
MCPToolNamePool ==
    { <<>>,
      <<"g", "e", "t", "_", "w", "x">>,
      <<"G", "e", "t", " ", "W", "x">>,
      <<" ", " ">>,
      Repeat("x", 65) }

\* docInfo.Version: none, 1, 1.0, and a number of 63 digits
VersionPool == { <<>>, <<"1">>, <<"1", ".", "0">>, Repeat("1", 63) }

\* the requestBody of an operation: none, or the content type that has a
\* schema and the required flag
RequestBodyPool == {"none", "json_required", "json_optional", "xml_required"}

\* the endpoints of the two-format document: GET /x.json and GET /x.xml
FormatEndpoints ==
    << Endpoint(<< <<"x", ".", "j", "s", "o", "n">> >>, <<>>, <<>>, FALSE, <<>>, "none"),
       Endpoint(<< <<"x", ".", "x", "m", "l">> >>, <<>>, <<>>, FALSE, <<>>, "none") >>

\* GenerateToolsFromDocument: one tool per endpoint that is not deprecated, in
\* the order of the endpoints; the configuration is no input of it
RECURSIVE GenerateToolsFromDocument(_, _)
GenerateToolsFromDocument(endpoints, docInfo) ==
    IF endpoints = <<>> THEN <<>>
    ELSE (IF Head(endpoints).deprecated THEN <<>>
          ELSE << [name |-> GenerateToolName(Head(endpoints), docInfo),
                   endpoint |-> Head(endpoints)] >>)
         \o GenerateToolsFromDocument(Tail(endpoints), docInfo)

\* generateInputSchema: the property names, and the required member with the
\* Go type of the value stored under it
GenerateInputSchema(endpoint) ==
    LET params == endpoint.parameters
        required == [i \in 1..Len(SelectSeq(params, LAMBDA p : p.required)) |->
                        SelectSeq(params, LAMBDA p : p.required)[i].name]
        jsonBody == endpoint.requestBody \in {"json_required", "json_optional"}
    IN [properties |-> {params[i].name : i \in 1..Len(params)} \cup
                       (IF jsonBody THEN {"requestBody"} ELSE {}),
        required |-> [goType |-> "[]string",
                      names |-> IF endpoint.requestBody = "json_required"
                                THEN Append(required, "requestBody")
                                ELSE required]]

\* AddSwaggerTool: requiredFields.([]interface{}) and the names found in it
RequiredFields(inputSchema) ==
    IF inputSchema.required.goType = "[]interface{}"
    THEN {inputSchema.required.names[i] : i \in 1..Len(inputSchema.required.names)}
    ELSE {}

\* AddSwaggerTool: the properties it marks mcp.Required()
AddSwaggerTool(inputSchema) ==
    {p \in inputSchema.properties : p \in RequiredFields(inputSchema)}

NoEndpoint == Endpoint(<<>>, <<>>, <<>>, FALSE, <<>>, "none")

NoSchema == [properties |-> {}, required |-> [goType |-> "[]string", names |-> <<>>]]

\* the generator's variables while nothing is generated
IdleGen ==
    /\ nameIn = [endpoint |-> NoEndpoint, version |-> <<>>]
    /\ nameOut = <<>>
    /\ preferFormat = ""
    /\ docIn = <<>>
    /\ docOut = <<>>
    /\ schemaIn = NoEndpoint
    /\ schemaOut = NoSchema
    /\ marked = {}

\* generateToolName is called for an endpoint of a document
DoGenerateToolName ==
    /\ IdleGen
    /\ \E p \in PathPool, o \in OperationIDPool, n \in MCPToolNamePool, v \in VersionPool :
          /\ nameIn' = [endpoint |-> Endpoint(p, o, n, FALSE, <<>>, "none"), version |-> v]
          /\ nameOut' = GenerateToolName(Endpoint(p, o, n, FALSE, <<>>, "none"),
                                         [version |-> v])
    /\ UNCHANGED <<preferFormat, docIn, docOut, schemaIn, schemaOut, marked>>

\* GenerateToolsFromDocument is called, under a configuration, for a document
\* made of the two format endpoints, each of them deprecated or not
DoGenerateTools ==
    /\ IdleGen
    /\ \E f \in {"", "json", "xml"}, d1, d2 \in BOOLEAN :
          LET endpoints == << [FormatEndpoints[1] EXCEPT !.deprecated = d1],
                              [FormatEndpoints[2] EXCEPT !.deprecated = d2] >> IN
            /\ preferFormat' = f
            /\ docIn' = endpoints
            /\ docOut' = GenerateToolsFromDocument(endpoints, [version |-> <<"1">>])
    /\ UNCHANGED <<nameIn, nameOut, schemaIn, schemaOut, marked>>

\* generateInputSchema makes the schema of a tool and AddSwaggerTool reads it
DoGenerateInputSchema ==
    /\ IdleGen
    /\ \E ps \in EndpointPool, b \in RequestBodyPool :
          LET endpoint == Endpoint(<<>>, <<>>, <<>>, FALSE, ps, b) IN
            /\ schemaIn' = endpoint
            /\ schemaOut' = GenerateInputSchema(endpoint)
            /\ marked' = AddSwaggerTool(GenerateInputSchema(endpoint))
    /\ UNCHANGED <<nameIn, nameOut, preferFormat, docIn, docOut>>

(***************************************************************************)
(* The scan-generate-register pipeline, run twice on the same document.    *)
(* ExtractEndpoints ranges over the maps document.Paths and pathItem: the  *)
(* endpoints come out in any order, and initializeTools registers the      *)
(* tools in that order.  A tool is named by its name and by the endpoint   *)
(* it was made of (src).                                                   *)
(***************************************************************************)

\* the runs of the pipeline
Runs == 2

\* the tools made of a document with four endpoints: the operations of
\* endpoints 1 and 2 have one operationId, those of 3 and 4 another
PipeTools ==
    { [name |-> "a", src |-> 1], [name |-> "a", src |-> 2],
      [name |-> "b", src |-> 3], [name |-> "b", src |-> 4] }

\* the variables of the pipeline while it does not run
IdlePipe ==
    /\ pipeLeft = {}
    /\ pipeReg = EmptyMap
    /\ pipeDone = <<>>

\* initializeTools: the tool of the endpoint that comes next is registered
PipeRegisterNext ==
    /\ Len(pipeDone) < Runs
    /\ \E tool \in pipeLeft :
          /\ pipeLeft' = pipeLeft \ {tool}
          /\ pipeReg' = RegisterTool(pipeReg, tool).tools
    /\ UNCHANGED pipeDone

\* a run is over: the next one starts on the same document with a new registry
PipeRunDone ==
    /\ Len(pipeDone) < Runs
    /\ pipeLeft = {}
    /\ pipeDone' = Append(pipeDone, pipeReg)
    /\ pipeLeft' = IF Len(pipeDone) + 1 < Runs THEN PipeTools ELSE {}
    /\ pipeReg' = EmptyMap

(***************************************************************************)
(* Tag filters: the request-time filter of GET /tools (matchesTool in      *)
(* src/pkg/sse/handlers.go) and the static filters of the scanner          *)
(* (FilterDocumentsByPackageIDs and FilterDocumentsByTWCFilters in         *)
(* src/pkg/swagger/scanner.go).  A tag list and a filter list are given by *)
(* the values in them.                                                     *)
(***************************************************************************)

\* the values of a tag
TagValues == {"x", "y"}

\* the tag families of the claim
Families == {"packageIDs", "domains", "portfolios", "geographies"}

\* the tag lists of a document, the filter lists of a request or configuration
TagLists == [Families -> SUBSET TagValues]

\* a tool's DocumentInfo: nil, or the tag lists of the document
NilDocumentInfo == [nil |-> TRUE, tags |-> [f \in Families |-> {}]]

DocumentInfos == {[nil |-> FALSE, tags |-> t] : t \in TagLists} \cup {NilDocumentInfo}

\* hasAnyMatch with the conjunction of the comparisons
HasAnyMatch_All(searchItems, targetItems) ==
    \A searchItem \in searchItems : searchItem \in targetItems

\* hasAnyMatch
HasAnyMatch(searchItems, targetItems) ==
    \E searchItem \in searchItems : \E targetItem \in targetItems : searchItem = targetItem

\* matchesTool, without custom filters
MatchesTool(documentInfo, filters) ==
    IF documentInfo.nil
    THEN \A f \in Families : filters[f] = {}
    ELSE /\ filters["packageIDs"] # {} =>
                HasAnyMatch(filters["packageIDs"], documentInfo.tags["packageIDs"])
         /\ filters["domains"] # {} =>
                HasAnyMatch(filters["domains"], documentInfo.tags["domains"])
         /\ filters["portfolios"] # {} =>
                HasAnyMatch(filters["portfolios"], documentInfo.tags["portfolios"])
         /\ filters["geographies"] # {} =>
                HasAnyMatch(filters["geographies"], documentInfo.tags["geographies"])

\* FilterDocumentsByPackageIDs: the document is kept
FilterDocumentsByPackageIDs(doc, packageIDs) ==
    IF packageIDs = {} THEN TRUE
    ELSE IF doc["packageIDs"] = {} THEN FALSE
    ELSE \E docID \in doc["packageIDs"] : \E filterID \in packageIDs : docID = filterID

\* one family of FilterDocumentsByTWCFilters
TWCFamilyMatch(docValues, filterValues) ==
    IF filterValues = {} THEN TRUE
    ELSE IF docValues = {} THEN FALSE
    ELSE \E d \in docValues : \E f \in filterValues : d = f

\* FilterDocumentsByTWCFilters, without usage classifications: the document is kept
FilterDocumentsByTWCFilters(doc, filters) ==
    /\ TWCFamilyMatch(doc["portfolios"], filters["portfolios"])
    /\ TWCFamilyMatch(doc["domains"], filters["domains"])
    /\ TWCFamilyMatch(doc["geographies"], filters["geographies"])

\* what a filter says of an item
Verdict(kept) == IF kept THEN "kept" ELSE "dropped"

\* the variables of the filters while nothing is filtered
IdleFilter ==
    /\ fltItem = NilDocumentInfo
    /\ fltFilters = [f \in Families |-> {}]
    /\ fltRequest = "none"
    /\ fltStatic = "none"

\* a tool is filtered by GET /tools, and the document it came from by the
\* filters initializeTools applies, with the same lists
DoFilter ==
    /\ fltRequest = "none"
    /\ fltRequest' = Verdict(MatchesTool(fltItem, fltFilters))
    /\ fltStatic' = Verdict(/\ FilterDocumentsByPackageIDs(fltItem.tags, fltFilters["packageIDs"])
                            /\ FilterDocumentsByTWCFilters(fltItem.tags, fltFilters))
    /\ UNCHANGED <<fltItem, fltFilters>>

(***************************************************************************)
(* The SSE server's Start, Stop and stop (src/pkg/sse/server.go) with the  *)
(* cleanup goroutine, next to the connection handlers.                     *)
(***************************************************************************)

\* the variables of Start while there is no SSE server
IdleShutdown ==
    /\ topCtx = FALSE
    /\ shutdownCh = "open"
    /\ startPc = "none"
    /\ cleanupPc = "none"
    /\ stopCalled = FALSE

\* the context given to Start is cancelled
CtxCancel ==
    /\ ~topCtx
    /\ startPc # "none"
    /\ topCtx' = TRUE
    /\ UNCHANGED <<shutdownCh, startPc, cleanupPc, stopCalled, sseVars>>

\* Stop, server.go:158-165, called by runSSEServer on a signal: the channel is
\* closed unless it is closed already
CallStop ==
    /\ ~stopCalled
    /\ startPc \notin {"none", "returned", "panic"}
    /\ stopCalled' = TRUE
    /\ shutdownCh' = "closed"
    /\ UNCHANGED <<topCtx, startPc, cleanupPc, sseVars>>

\* Start, server.go:143-154: the select is left through ctx.Done() or s.shutdown,
\* and stop is called
StartWake ==
    /\ startPc = "select"
    /\ topCtx \/ shutdownCh = "closed"
    /\ startPc' = "shutdown_http"
    /\ UNCHANGED <<topCtx, shutdownCh, cleanupPc, stopCalled, sseVars>>

\* stop, server.go:169-175: server.Shutdown returns, at the latest after 30 s
StopShutdownHTTP ==
    /\ startPc = "shutdown_http"
    /\ startPc' = "cancel"
    /\ UNCHANGED <<topCtx, shutdownCh, cleanupPc, stopCalled, sseVars>>

\* stop, server.go:178-183: the clients are cancelled and the map is replaced
StopCancelClients ==
    /\ startPc = "cancel"
    /\ SSEStop
    /\ startPc' = "close"
    /\ UNCHANGED <<topCtx, shutdownCh, cleanupPc, stopCalled>>

\* stop, server.go:186: close(s.shutdown); closing a closed channel panics
StopCloseShutdown ==
    /\ startPc = "close"
    /\ IF shutdownCh = "closed"
       THEN /\ startPc' = "panic"
            /\ UNCHANGED shutdownCh
       ELSE /\ shutdownCh' = "closed"
            /\ startPc' = "wait"
    /\ UNCHANGED <<topCtx, cleanupPc, stopCalled, sseVars>>

\* cleanupClients, server.go:267-270: the closed channel is received from, the
\* goroutine returns and its deferred wg.Done() runs
CleanupExit ==
    /\ cleanupPc = "running"
    /\ shutdownCh = "closed"
    /\ cleanupPc' = "exited"
    /\ UNCHANGED <<topCtx, shutdownCh, startPc, stopCalled, sseVars>>

\* stop, server.go:187-190: wg.Wait() returns and stop returns nil
StopReturn ==
    /\ startPc = "wait"
    /\ cleanupPc = "exited"
    /\ startPc' = "returned"
    /\ UNCHANGED <<topCtx, shutdownCh, cleanupPc, stopCalled, sseVars>>

(***************************************************************************)
(* The stdio server's Start and Stop with the handleMessages goroutine     *)
(* (src/pkg/server/mcp.go:58-92, 208-245), one statement per step.         *)
(***************************************************************************)

\* the lines that can wait unread on the input stream
MaxLines == 2

\* the goroutines that call Stop
Stoppers == {1, 2}

\* a close of a closed channel has panicked: the process is gone
LfPanicked ==
    \/ lfStartPc = "panic"
    \/ \E s \in Stoppers : lfStopPc[s] = "panic"

\* the variables of the stdio server's life while there is no server
IdleLife ==
    /\ lfCtx = FALSE
    /\ lfShutdown = "open"
    /\ lfCloses = 0
    /\ lfStartPc = "none"
    /\ lfLoopPc = "none"
    /\ lfInput = 0
    /\ lfEof = FALSE
    /\ lfStopPc = [s \in Stoppers |-> "idle"]

\* the context given to Start is cancelled
LfCtxCancel ==
    /\ ~LfPanicked
    /\ ~lfCtx
    /\ lfCtx' = TRUE
    /\ UNCHANGED <<lfShutdown, lfCloses, lfStartPc, lfLoopPc, lfInput, lfEof, lfStopPc>>

\* a line arrives on the input stream
LfLineArrives ==
    /\ ~LfPanicked
    /\ ~lfEof
    /\ lfInput < MaxLines
    /\ lfInput' = lfInput + 1
    /\ UNCHANGED <<lfCtx, lfShutdown, lfCloses, lfStartPc, lfLoopPc, lfEof, lfStopPc>>

\* the input stream is closed by the peer
LfEofArrives ==
    /\ ~LfPanicked
    /\ ~lfEof
    /\ lfEof' = TRUE
    /\ UNCHANGED <<lfCtx, lfShutdown, lfCloses, lfStartPc, lfLoopPc, lfInput, lfStopPc>>

\* Stop, mcp.go:85-91: the select finds the channel closed and returns, or
\* takes the default branch
LfStopCheck(s) ==
    /\ ~LfPanicked
    /\ lfStopPc[s] = "idle"
    /\ lfStopPc' = [lfStopPc EXCEPT ![s] = IF lfShutdown = "closed" THEN "done" ELSE "close"]
    /\ UNCHANGED <<lfCtx, lfShutdown, lfCloses, lfStartPc, lfLoopPc, lfInput, lfEof>>

\* Stop, mcp.go:90: close(s.shutdown); closing a closed channel panics
LfStopClose(s) ==
    /\ ~LfPanicked
    /\ lfStopPc[s] = "close"
    /\ lfCloses' = lfCloses + 1
    /\ IF lfShutdown = "closed"
       THEN /\ lfStopPc' = [lfStopPc EXCEPT ![s] = "panic"]
            /\ UNCHANGED lfShutdown
       ELSE /\ lfShutdown' = "closed"
            /\ lfStopPc' = [lfStopPc EXCEPT ![s] = "done"]
    /\ UNCHANGED <<lfCtx, lfStartPc, lfLoopPc, lfInput, lfEof>>

\* Start, mcp.go:69-75: the select is left through ctx.Done() or s.shutdown
LfStartWake ==
    /\ ~LfPanicked
    /\ lfStartPc = "select"
    /\ lfCtx \/ lfShutdown = "closed"
    /\ lfStartPc' = "close"
    /\ UNCHANGED <<lfCtx, lfShutdown, lfCloses, lfLoopPc, lfInput, lfEof, lfStopPc>>

\* Start, mcp.go:77: close(s.shutdown)
LfStartClose ==
    /\ ~LfPanicked
    /\ lfStartPc = "close"
    /\ lfCloses' = lfCloses + 1
    /\ IF lfShutdown = "closed"
       THEN /\ lfStartPc' = "panic"
            /\ UNCHANGED lfShutdown
       ELSE /\ lfShutdown' = "closed"
            /\ lfStartPc' = "wait"
    /\ UNCHANGED <<lfCtx, lfLoopPc, lfInput, lfEof, lfStopPc>>

\* Start, mcp.go:78-81: wg.Wait() returns once handleMessages is gone
LfStartReturn ==
    /\ ~LfPanicked
    /\ lfStartPc = "wait"
    /\ lfLoopPc = "exited"
    /\ lfStartPc' = "returned"
    /\ UNCHANGED <<lfCtx, lfShutdown, lfCloses, lfLoopPc, lfInput, lfEof, lfStopPc>>

\* handleMessages, mcp.go:213: scanner.Scan() returns true with a line
LfScanLine ==
    /\ ~LfPanicked
    /\ lfLoopPc = "scan"
    /\ lfInput > 0
    /\ lfInput' = lfInput - 1
    /\ lfLoopPc' = "select"
    /\ UNCHANGED <<lfCtx, lfShutdown, lfCloses, lfStartPc, lfEof, lfStopPc>>

\* handleMessages, mcp.go:213, 241-244: scanner.Scan() returns false at the end
\* of the input, the function returns and its deferred wg.Done() runs
LfScanEof ==
    /\ ~LfPanicked
    /\ lfLoopPc = "scan"
    /\ lfInput = 0
    /\ lfEof
    /\ lfLoopPc' = "exited"
    /\ UNCHANGED <<lfCtx, lfShutdown, lfCloses, lfStartPc, lfInput, lfEof, lfStopPc>>

\* handleMessages, mcp.go:214-220: the select on ctx.Done() and s.shutdown
\* with its default branch
LfLoopSelect ==
    /\ ~LfPanicked
    /\ lfLoopPc = "select"
    /\ lfLoopPc' = IF lfCtx \/ lfShutdown = "closed" THEN "exited" ELSE "handle"
    /\ UNCHANGED <<lfCtx, lfShutdown, lfCloses, lfStartPc, lfInput, lfEof, lfStopPc>>

\* handleMessages, mcp.go:222-239: the line is handled, the loop scans again
LfHandle ==
    /\ ~LfPanicked
    /\ lfLoopPc = "handle"
    /\ lfLoopPc' = "scan"
    /\ UNCHANGED <<lfCtx, lfShutdown, lfCloses, lfStartPc, lfInput, lfEof, lfStopPc>>

\* the steps of Start
LfStartStep == LfStartWake \/ LfStartClose \/ LfStartReturn

\* the steps of handleMessages
LfLoopStep == LfScanLine \/ LfScanEof \/ LfLoopSelect \/ LfHandle

(***************************************************************************)
(* The goroutines of the SSE server on the client map, on a client's       *)
(* LastSeen and on a client's stream (src/pkg/sse/handlers.go,             *)
(* src/pkg/sse/server.go), one statement per step, for one client.  A      *)
(* goroutine whose position is the name of a statement is executing it.    *)
(***************************************************************************)

\* handleSSE of the client, handleHealth, handleGetConfig, cleanupClients,
\* two handleExecuteTool with the goroutine each broadcast starts, and stop
RaceGoroutines ==
    {"handler", "health", "config", "sweep", "exec1", "exec2", "send1", "send2", "stop"}

\* the goroutine broadcastEvent starts for the client
SenderOf(g) == IF g = "exec1" THEN "send1" ELSE "send2"

\* clientsMutex.Lock() succeeds
CanLockClients == clientsMutexW = "none" /\ clientsMutexR = {}

\* clientsMutex.RLock() succeeds
CanRLockClients == clientsMutexW = "none"

\* the goroutines executing a statement that writes s.clients
MapWriters == {g \in RaceGoroutines : rcPc[g] \in {"register", "delete", "sweeping", "stopping"}}

\* the goroutines executing a statement that reads s.clients
MapReaders == {g \in RaceGoroutines : rcPc[g] \in {"len", "ranging", "sweeping", "stopping"}}

\* the goroutines executing a statement that writes client.LastSeen
LastSeenWriters == {g \in RaceGoroutines : rcPc[g] = "lastSeen"}

\* the goroutines executing a statement that reads client.LastSeen
LastSeenReaders == {g \in RaceGoroutines : rcPc[g] = "sweeping"}

\* the goroutines inside client.Writer.Write / client.Flusher.Flush
StreamWriters ==
    {g \in RaceGoroutines : rcPc[g] \in {"write_connected", "write_tools", "write_heartbeat",
                                        "write_execution"}}

\* the variables of this section while the server does not run
IdleRace ==
    /\ rcPc = [g \in RaceGoroutines |-> "none"]
    /\ clientsMutexW = "none"
    /\ clientsMutexR = {}
    /\ rcInMap = FALSE
    /\ rcCtxDone = FALSE

\* goroutine g goes from one statement to another
RcGoto(g, from, to) ==
    /\ rcPc[g] = from
    /\ rcPc' = [rcPc EXCEPT ![g] = to]

\* handleSSE, handlers.go:62-63: clientsMutex.Lock(), then s.clients[clientID] = client
RcRegisterLock ==
    /\ CanLockClients
    /\ RcGoto("handler", "start", "register")
    /\ clientsMutexW' = "handler"
    /\ UNCHANGED <<clientsMutexR, rcInMap, rcCtxDone>>

\* handleSSE, handlers.go:64: Unlock; next the connected event, handlers.go:69,
\* sendEventToClient's context check 281-285 and its Write 302
RcRegisterUnlock ==
    /\ RcGoto("handler", "register", IF rcCtxDone THEN "tools" ELSE "write_connected")
    /\ clientsMutexW' = "none"
    /\ rcInMap' = TRUE
    /\ UNCHANGED <<clientsMutexR, rcCtxDone>>

\* sendEventToClient has written the connected event; the tools event is next
RcConnectedWritten ==
    /\ RcGoto("handler", "write_connected", "tools")
    /\ UNCHANGED <<clientsMutexW, clientsMutexR, rcInMap, rcCtxDone>>

\* handlers.go:92: sendEventToClient for the tools event
RcSendTools ==
    /\ RcGoto("handler", "tools", IF rcCtxDone THEN "loop" ELSE "write_tools")
    /\ UNCHANGED <<clientsMutexW, clientsMutexR, rcInMap, rcCtxDone>>

RcToolsWritten ==
    /\ RcGoto("handler", "write_tools", "loop")
    /\ UNCHANGED <<clientsMutexW, clientsMutexR, rcInMap, rcCtxDone>>

\* handlers.go:111-112: the heartbeat ticker fires, client.LastSeen = time.Now()
RcHeartbeat ==
    /\ RcGoto("handler", "loop", "lastSeen")
    /\ UNCHANGED <<clientsMutexW, clientsMutexR, rcInMap, rcCtxDone>>

\* handlers.go:113: sendEventToClient for the heartbeat event
RcSendHeartbeat ==
    /\ RcGoto("handler", "lastSeen", IF rcCtxDone THEN "loop" ELSE "write_heartbeat")
    /\ UNCHANGED <<clientsMutexW, clientsMutexR, rcInMap, rcCtxDone>>

RcHeartbeatWritten ==
    /\ RcGoto("handler", "write_heartbeat", "loop")
    /\ UNCHANGED <<clientsMutexW, clientsMutexR, rcInMap, rcCtxDone>>

\* handlers.go:105-108: ctx.Done(), clientsMutex.Lock(), delete(s.clients, clientID)
RcDeleteLock ==
    /\ rcCtxDone
    /\ CanLockClients
    /\ RcGoto("handler", "loop", "delete")
    /\ clientsMutexW' = "handler"
    /\ UNCHANGED <<clientsMutexR, rcInMap, rcCtxDone>>

\* handlers.go:109-110: Unlock, return
RcDeleteUnlock ==
    /\ RcGoto("handler", "delete", "returned")
    /\ clientsMutexW' = "none"
    /\ rcInMap' = FALSE
    /\ UNCHANGED <<clientsMutexR, rcCtxDone>>

\* the peer closes the connection: r.Context() is cancelled
RcDisconnect ==
    /\ rcPc["handler"] \notin {"none", "start", "returned"}
    /\ ~rcCtxDone
    /\ rcCtxDone' = TRUE
    /\ UNCHANGED <<rcPc, clientsMutexW, clientsMutexR, rcInMap>>

\* handleHealth, handlers.go:27, and handleGetConfig, handlers.go:260:
\* len(s.clients) is evaluated
RcLen(g) ==
    /\ RcGoto(g, "idle", "len")
    /\ UNCHANGED <<clientsMutexW, clientsMutexR, rcInMap, rcCtxDone>>

\* the response is written, the handler returns
RcLenDone(g) ==
    /\ RcGoto(g, "len", "done")
    /\ UNCHANGED <<clientsMutexW, clientsMutexR, rcInMap, rcCtxDone>>

\* cleanupClients, server.go:271-274: the ticker fires, clientsMutex.Lock(),
\* the loop over s.clients reading client.LastSeen
RcSweepLock ==
    /\ CanLockClients
    /\ RcGoto("sweep", "wait", "sweeping")
    /\ clientsMutexW' = "sweep"
    /\ UNCHANGED <<clientsMutexR, rcInMap, rcCtxDone>>

\* cleanupClients, server.go:275-281: a stale client is cancelled and deleted;
\* Unlock
RcSweepUnlock ==
    /\ RcGoto("sweep", "sweeping", "wait")
    /\ clientsMutexW' = "none"
    /\ \E stale \in BOOLEAN :
          IF stale /\ rcInMap
          THEN /\ rcCtxDone' = TRUE
               /\ rcInMap' = FALSE
          ELSE UNCHANGED <<rcInMap, rcCtxDone>>
    /\ UNCHANGED clientsMutexR

\* handleExecuteTool reaches broadcastEvent, handlers.go:313-316: RLock and
\* the loop over s.clients
RcBroadcastRLock(g) ==
    /\ CanRLockClients
    /\ RcGoto(g, "idle", "ranging")
    /\ clientsMutexR' = clientsMutexR \cup {g}
    /\ UNCHANGED <<clientsMutexW, rcInMap, rcCtxDone>>

\* broadcastEvent, handlers.go:316-318: go sendEventToClient for the client of
\* the map; the deferred RUnlock
RcBroadcastRUnlock(g) ==
    /\ rcPc[g] = "ranging"
    /\ rcPc' = [rcPc EXCEPT ![g] = "done",
                            ![SenderOf(g)] = IF rcInMap THEN "check" ELSE "none"]
    /\ clientsMutexR' = clientsMutexR \ {g}
    /\ UNCHANGED <<clientsMutexW, rcInMap, rcCtxDone>>

\* the goroutine of a broadcast, sendEventToClient, handlers.go:281-285 and 302
RcSenderCheck(g) ==
    /\ RcGoto(g, "check", IF rcCtxDone THEN "skipped" ELSE "write_execution")
    /\ UNCHANGED <<clientsMutexW, clientsMutexR, rcInMap, rcCtxDone>>

RcSenderWritten(g) ==
    /\ RcGoto(g, "write_execution", "written")
    /\ UNCHANGED <<clientsMutexW, clientsMutexR, rcInMap, rcCtxDone>>

\* stop, server.go:178-182: Lock, every client cancelled, the map replaced
RcStopLock ==
    /\ CanLockClients
    /\ RcGoto("stop", "idle", "stopping")
    /\ clientsMutexW' = "stop"
    /\ UNCHANGED <<clientsMutexR, rcInMap, rcCtxDone>>

\* stop, server.go:183: Unlock
RcStopUnlock ==
    /\ RcGoto("stop", "stopping", "done")
    /\ clientsMutexW' = "none"
    /\ rcCtxDone' = (rcCtxDone \/ rcInMap)
    /\ rcInMap' = FALSE
    /\ UNCHANGED clientsMutexR

\* the variables of the later sections while their subsystems do not run
(***************************************************************************)
(* POST /tools/{name}/execute and the apiKey argument                       *)
(* (src/pkg/sse/handlers.go 175-250, 327-360; src/pkg/types/mcp.go 403-429, *)
(* 526-543).  Two requests run concurrently and each may be followed by     *)
(* another one.  Of the arguments only the entry "apiKey" is modelled: a    *)
(* JSON value with its type, or no entry.                                   *)
(***************************************************************************)
Executors == {1, 2}

\* the JSON values a body can carry under arguments.apiKey, as json.Decode
\* stores them in map[string]interface{}
AbsentArg == [t |-> "absent", v |-> ""]

ApiKeyArgs ==
    { AbsentArg,
      [t |-> "string", v |-> "k1"],
      [t |-> "string", v |-> "k2"],
      [t |-> "string", v |-> ""],
      [t |-> "number", v |-> "12345"] }

\* the keys NewSSEServer can be configured with: none, or one
ConfiguredKeys == {"", "cfg"}

NotCalled == "not called"

NoEvent == [t |-> "no event", v |-> ""]

NotPassed == [t |-> "not passed", v |-> ""]

IdleKey ==
    /\ kyConfig = [Auth |-> [APIKey |-> ""]]
    /\ kyPc = [e \in Executors |-> "idle"]
    /\ kyBody = [e \in Executors |-> AbsentArg]
    /\ kyArgs = [e \in Executors |-> AbsentArg]
    /\ kyKey = [e \in Executors |-> ""]
    /\ kyHeader = [e \in Executors |-> NotCalled]
    /\ kyPassed = [e \in Executors |-> NotPassed]
    /\ kyEvent = [e \in Executors |-> NoEvent]

\* handlers.go 175-207: look the tool up and decode the body; an unknown tool
\* is answered with 404 before the body is read
KyDecode(e, found, a) ==
    /\ kyPc[e] = "idle"
    /\ kyPc' = [kyPc EXCEPT ![e] = IF found THEN "decoded" ELSE "done"]
    /\ kyBody' = [kyBody EXCEPT ![e] = IF found THEN a ELSE AbsentArg]
    /\ kyArgs' = [kyArgs EXCEPT ![e] = IF found THEN a ELSE AbsentArg]
    /\ kyKey' = [kyKey EXCEPT ![e] = ""]
    /\ kyHeader' = [kyHeader EXCEPT ![e] = NotCalled]
    /\ kyPassed' = [kyPassed EXCEPT ![e] = NotPassed]
    /\ kyEvent' = [kyEvent EXCEPT ![e] = NoEvent]
    /\ UNCHANGED kyConfig

\* handlers.go 209-219: the entry is taken as the key, and deleted from the
\* arguments, only when it is a non-empty string
KyExtract(e) ==
    /\ kyPc[e] = "decoded"
    /\ LET argAPIKey == kyArgs[e]
           exists == argAPIKey.t # "absent"
           ok == argAPIKey.t = "string"
       IN  IF exists /\ ok /\ argAPIKey.v # ""
           THEN /\ kyKey' = [kyKey EXCEPT ![e] = argAPIKey.v]
                /\ kyArgs' = [kyArgs EXCEPT ![e] = AbsentArg]
           ELSE UNCHANGED <<kyKey, kyArgs>>
    /\ kyPc' = [kyPc EXCEPT ![e] = "extracted"]
    /\ UNCHANGED <<kyConfig, kyBody, kyHeader, kyPassed, kyEvent>>

\* mcp.go 526-543: the Authorization (or X-API-Key) header of the request
addAuthentication(config) ==
    IF config.Auth.APIKey # "" THEN config.Auth.APIKey ELSE "no header"

\* handlers.go 327-360 with 222-231: the client of the call is s.httpClient,
\* or a temporary one built on a copy of the configuration with the key
\* overridden; the call may fail, and then no event is sent
KyCall(e, failed) ==
    /\ kyPc[e] = "extracted"
    /\ LET apiKey == kyKey[e]
           tempConfig == [kyConfig EXCEPT !.Auth.APIKey = apiKey]
           clientConfig == IF apiKey # "" THEN tempConfig ELSE kyConfig
       IN  kyHeader' = [kyHeader EXCEPT ![e] = addAuthentication(clientConfig)]
    /\ kyPassed' = [kyPassed EXCEPT ![e] = kyArgs[e]]
    /\ kyPc' = [kyPc EXCEPT ![e] = IF failed THEN "done" ELSE "called"]
    /\ UNCHANGED <<kyConfig, kyBody, kyArgs, kyKey, kyEvent>>

\* handlers.go 233-249: the tool_execution event carries request.Arguments
KyBroadcast(e) ==
    /\ kyPc[e] = "called"
    /\ kyEvent' = [kyEvent EXCEPT ![e] = kyArgs[e]]
    /\ kyPc' = [kyPc EXCEPT ![e] = "done"]
    /\ UNCHANGED <<kyConfig, kyBody, kyArgs, kyKey, kyHeader, kyPassed>>

\* the handler has returned; the connection carries the next request
KyNext(e) ==
    /\ kyPc[e] = "done"
    /\ kyPc' = [kyPc EXCEPT ![e] = "idle"]
    /\ UNCHANGED <<kyConfig, kyBody, kyArgs, kyKey, kyHeader, kyPassed, kyEvent>>

IdleMore == IdleLife /\ IdleRace /\ IdleKey

\* the variables of the generator, the pipeline, the filters and Start while they do not run
IdleRest == IdleGen /\ IdlePipe /\ IdleFilter /\ IdleShutdown /\ IdleMore

\* the scanner's variables while nothing is scanned
IdleScanner == IdleScan /\ IdleArr /\ IdleRec /\ IdleVer

(***************************************************************************)
(* Specifications                                                          *)
(***************************************************************************)

InitTools == InitReg /\ IdleConc /\ IdleHTTP /\ IdleStdio /\ IdleSSE /\ IdleScanner /\ IdleRest

NextTools ==
    /\ \/ DoRegisterTool
       \/ DoUnregisterTool
       \/ DoClearTools
       \/ DoGetTool
       \/ DoGetToolCount
       \/ DoHasTool
    /\ UNCHANGED <<sseVars, scannerVars, restVars>>

SpecTools == InitTools /\ [][NextTools]_vars

InitAux == InitReg /\ IdleConc /\ IdleHTTP /\ IdleStdio /\ IdleSSE /\ IdleScanner /\ IdleRest

NextAux ==
    /\ \/ DoRegisterPrompt
       \/ DoRemovePrompt
       \/ DoClearPrompts
       \/ DoRegisterResource
       \/ DoRemoveResource
       \/ DoRemoveResourceByURI
       \/ DoClearResources
    /\ UNCHANGED <<sseVars, scannerVars, restVars>>

SpecAux == InitAux /\ [][NextAux]_vars

InitConc ==
    /\ InitReg
    /\ IdleSSE
    /\ IdleScanner
    /\ IdleRest
    /\ IdleHTTP
    /\ IdleStdio
    /\ rwWriter = 0
    /\ rwReaders = {}
    /\ pc = [p \in Writers \cup Readers |-> IF p \in Writers THEN "w_lock" ELSE "r_idle"]
    /\ wtool \in {f \in [Writers -> [name : Names \cup {""}, src : Writers]] :
                    \A w \in Writers : f[w].src = w}
    /\ werr = [w \in Writers |-> "running"]
    /\ rcall = [r \in Readers |-> [op |-> "none", name |-> ""]]
    /\ robs = [r \in Readers |-> NoObs]

NextConc ==
    /\ \/ \E w \in Writers : WLock(w)
       \/ \E w \in Writers : WEmpty(w)
       \/ \E w \in Writers : WCheck(w)
       \/ \E w \in Writers : WStore(w)
       \/ \E w \in Writers : WUnlock(w)
       \/ \E r \in Readers : RCall(r)
       \/ \E r \in Readers : RRLock(r)
       \/ \E r \in Readers : RMake(r)
       \/ \E r \in Readers : RRead(r)
       \/ \E r \in Readers : RRUnlock(r)
    /\ UNCHANGED <<sseVars, scannerVars, restVars>>

SpecConc == InitConc /\ [][NextConc]_vars

InitHTTP ==
    /\ InitReg
    /\ IdleSSE
    /\ IdleScanner
    /\ IdleRest
    /\ IdleConc
    /\ IdleStdio
    /\ cfgRetries \in 0..MaxRetries
    /\ clPc = "idle"
    /\ clEndpoint = <<>>
    /\ clArgs = {}
    /\ clUrlOk = TRUE
    /\ attempt = 0
    /\ attempts = 0
    /\ outcomes = <<>>
    /\ lastErr = "nil"
    /\ slept = 0
    /\ bodies = <<>>
    /\ clRet = NoRet

\* a direct caller of ExecuteRequest
DoExecuteRequest ==
    /\ \E e \in EndpointPool, a \in SUBSET ArgNames, u \in BOOLEAN : ClientEnter(e, a, u)
    /\ UNCHANGED <<regVars, concVars, stdioVars>>

DoClientBuild == ClientBuild /\ UNCHANGED <<regVars, concVars, stdioVars>>

DoClientAttempt ==
    /\ \E o \in NetworkOutcomes : ClientAttempt(o)
    /\ UNCHANGED <<regVars, concVars, stdioVars>>

DoClientExhausted == ClientExhausted /\ UNCHANGED <<regVars, concVars, stdioVars>>

NextHTTP ==
    /\ \/ DoExecuteRequest
       \/ DoClientBuild
       \/ DoClientAttempt
       \/ DoClientExhausted
    /\ UNCHANGED <<sseVars, scannerVars, restVars>>

SpecHTTP == InitHTTP /\ [][NextHTTP]_vars

InitStdio ==
    /\ InitReg
    /\ IdleSSE
    /\ IdleScanner
    /\ IdleRest
    /\ IdleConc
    /\ cfgRetries \in {0, 1}
    /\ clPc = "idle"
    /\ clEndpoint = <<>>
    /\ clArgs = {}
    /\ clUrlOk = TRUE
    /\ attempt = 0
    /\ attempts = 0
    /\ outcomes = <<>>
    /\ lastErr = "nil"
    /\ slept = 0
    /\ bodies = <<>>
    /\ clRet = NoRet
    /\ cfgMaxTools \in {0, 1}
    /\ srvPc = "read"
    /\ initialized = FALSE
    /\ cur = NoLine
    /\ written = <<>>
    /\ callTool = NilTool
    /\ passes = <<>>

NextStdio ==
    /\ \/ DoEmptyLine
       \/ DoParseError
       \/ DoInitialize
       \/ DoInitialized
       \/ DoListTools
       \/ DoCallTool
       \/ DoListStub
       \/ DoGetStub
       \/ DoUnknownMethod
       \/ StdioClientStep
       \/ DoCallReturn
       \/ DoCallPanic
       \/ DoEof
       \/ DoPassStep
    /\ UNCHANGED <<sseVars, scannerVars, restVars>>

SpecStdio == InitStdio /\ [][NextStdio]_vars

\* the SSE server after Start has registered the tools and listens
InitSSE ==
    /\ IdleConc
    /\ IdleHTTP
    /\ IdleStdio
    /\ tools = SSETools
    /\ prompts = EmptyMap
    /\ resources = EmptyMap
    /\ uriIndex = EmptyMap
    /\ ret = NoCall
    /\ IdleSSE
    /\ IdleScanner
    /\ IdleRest

NextSSE ==
    /\ \/ \E c \in SSEClientIds : HConnect(c)
       \/ \E c \in SSEClientIds : HSendConnected(c)
       \/ \E c \in SSEClientIds : HSendTools(c)
       \/ \E c \in SSEClientIds : HCtxDone(c)
       \/ \E c \in SSEClientIds : ClientDisconnect(c)
       \/ \E c \in SSEClientIds : ConnDies(c)
       \/ SSEStop
       \/ \E e \in Execs : ExHandle(e)
       \/ \E e \in Execs : ExBroadcast(e)
       \/ \E e \in Execs : ExRespond(e)
       \/ \E e \in Execs, c \in SSEClientIds : SendCheck(e, c)
       \/ \E e \in Execs, c \in SSEClientIds : SendWrite(e, c)
    /\ UNCHANGED <<regVars, concVars, httpVars, stdioVars, scannerVars, restVars>>

\* connections, execute requests and broadcasts within one ticker period
SpecSSE == InitSSE /\ [][NextSSE]_vars

NextSweep ==
    /\ \/ \E c \in SSEClientIds : HConnect(c)
       \/ \E c \in SSEClientIds : HSendConnected(c)
       \/ \E c \in SSEClientIds : HSendTools(c)
       \/ \E c \in SSEClientIds : HHeartbeat(c)
       \/ \E c \in SSEClientIds : HCtxDone(c)
       \/ \E c \in SSEClientIds : ConnDies(c)
       \/ Tick
       \/ Sweep
    /\ UNCHANGED <<regVars, concVars, httpVars, stdioVars, scannerVars, restVars>>

\* connections over time: heartbeats, silently dead peers and the cleanup sweep
SpecSweep == InitSSE /\ [][NextSweep]_vars

\* everything but the scanner is idle
IdleServers == InitReg /\ IdleConc /\ IdleHTTP /\ IdleStdio /\ IdleSSE

\* the sequences over S of length at most n
SeqsUpTo(S, n) == UNION {[1..k -> S] : k \in 0..n}

\* ScanPathsAndURLs is called with lists of paths and URLs
InitScan ==
    /\ IdleServers
    /\ IdleRest
    /\ IdleArr
    /\ IdleRec
    /\ IdleVer
    /\ paths \in SeqsUpTo(PathKinds, MaxPaths)
    /\ urls \in SeqsUpTo(URLKinds, MaxScanURLs)
    /\ scanPc = "paths"
    /\ scanIdx = 0
    /\ allDocuments = <<>>
    /\ allErrors = <<>>
    /\ totalFiles = 0
    /\ scanRet = NoScanRet

NextScan ==
    /\ \/ ScanNextPath
       \/ ScanPathsDone
       \/ ScanNextURL
       \/ ScanReturn
    /\ UNCHANGED <<regVars, concVars, httpVars, stdioVars, sseVars, arrVars, recVars, verVars, restVars>>

SpecScan == InitScan /\ [][NextScan]_vars

\* processURLArray is called with the array a URL answered
InitFanout ==
    /\ IdleServers
    /\ IdleRest
    /\ IdleScan
    /\ IdleRec
    /\ IdleVer
    /\ urlArray \in SeqsUpTo(ItemKinds, MaxItems)
    /\ arrPc = "validate"
    /\ validURLs = <<>>
    /\ initialErrors = <<>>
    /\ launched = 0
    /\ gPc = [k \in ItemIds |-> "none"]
    /\ resultChan = <<>>
    /\ chanClosed = FALSE
    /\ wg = 0
    /\ closerPc = "none"
    /\ arrDocuments = <<>>
    /\ arrErrors = <<>>
    /\ arrFiles = 0

NextFanout ==
    /\ \/ ArrValidate
       \/ ArrLaunch
       \/ ArrStartCollect
       \/ \E k \in ItemIds : GFetch(k)
       \/ \E k \in ItemIds : GSend(k)
       \/ \E k \in ItemIds : GDone(k)
       \/ CloserClose
       \/ ArrReceive
       \/ ArrReturn
    /\ UNCHANGED <<regVars, concVars, httpVars, stdioVars, sseVars, scanVars, recVars, verVars, restVars>>

SpecFanout == InitFanout /\ [][NextFanout]_vars

\* scanSingleURL is called with one of the remote URLs
InitRecur ==
    /\ IdleServers
    /\ IdleRest
    /\ IdleScan
    /\ IdleArr
    /\ IdleVer
    /\ world \in [RemoteURLs -> Contents]
    /\ \E u \in RemoteURLs : calls = [c \in {<<u>>} |-> "fetch"]

NextRecur ==
    /\ \/ \E ch \in DOMAIN calls : RecFetch(ch)
       \/ \E ch \in DOMAIN calls : RecJoin(ch)
    /\ UNCHANGED <<regVars, concVars, httpVars, stdioVars, sseVars, scanVars, arrVars, verVars, restVars>>

SpecRecur == InitRecur /\ [][NextRecur]_vars

InitVersion == IdleServers /\ IdleRest /\ IdleScan /\ IdleArr /\ IdleRec /\ IdleVer

NextVersion ==
    /\ DoInferVersion
    /\ UNCHANGED <<regVars, concVars, httpVars, stdioVars, sseVars, scanVars, arrVars, recVars, restVars>>

SpecVersion == InitVersion /\ [][NextVersion]_vars

\* the generator is called on endpoints and documents
InitGen == IdleServers /\ IdleScanner /\ IdleRest

NextGen ==
    /\ \/ DoGenerateToolName
       \/ DoGenerateTools
       \/ DoGenerateInputSchema
    /\ UNCHANGED <<regVars, concVars, httpVars, stdioVars, sseVars, scannerVars,
                   pipeVars, filterVars, shutdownVars, moreVars>>

SpecGen == InitGen /\ [][NextGen]_vars

\* the pipeline starts its first run on the document
InitPipe ==
    /\ IdleServers
    /\ IdleScanner
    /\ IdleGen
    /\ IdleFilter
    /\ IdleShutdown
    /\ IdleMore
    /\ pipeLeft = PipeTools
    /\ pipeReg = EmptyMap
    /\ pipeDone = <<>>

NextPipe ==
    /\ \/ PipeRegisterNext
       \/ PipeRunDone
    /\ UNCHANGED <<regVars, concVars, httpVars, stdioVars, sseVars, scannerVars,
                   genVars, filterVars, shutdownVars, moreVars>>

SpecPipe == InitPipe /\ [][NextPipe]_vars

\* an item and filter lists are given to both filters
InitFilter ==
    /\ IdleServers
    /\ IdleScanner
    /\ IdleGen
    /\ IdlePipe
    /\ IdleShutdown
    /\ IdleMore
    /\ fltItem \in DocumentInfos
    /\ fltFilters \in TagLists
    /\ fltRequest = "none"
    /\ fltStatic = "none"

NextFilter ==
    /\ DoFilter
    /\ UNCHANGED <<regVars, concVars, httpVars, stdioVars, sseVars, scannerVars,
                   genVars, pipeVars, shutdownVars, moreVars>>

SpecFilter == InitFilter /\ [][NextFilter]_vars

\* Start has registered the tools, started cleanupClients and the listener,
\* and waits in its select
InitShutdown ==
    /\ IdleConc
    /\ IdleHTTP
    /\ IdleStdio
    /\ tools = SSETools
    /\ prompts = EmptyMap
    /\ resources = EmptyMap
    /\ uriIndex = EmptyMap
    /\ ret = NoCall
    /\ IdleSSE
    /\ IdleScanner
    /\ IdleGen
    /\ IdlePipe
    /\ IdleFilter
    /\ IdleMore
    /\ topCtx = FALSE
    /\ shutdownCh = "open"
    /\ startPc = "select"
    /\ cleanupPc = "running"
    /\ stopCalled = FALSE

NextShutdown ==
    /\ \/ CtxCancel
       \/ CallStop
       \/ StartWake
       \/ StopShutdownHTTP
       \/ StopCancelClients
       \/ StopCloseShutdown
       \/ CleanupExit
       \/ StopReturn
       \/ /\ \/ \E c \in SSEClientIds : HConnect(c)
             \/ \E c \in SSEClientIds : HSendConnected(c)
             \/ \E c \in SSEClientIds : HSendTools(c)
             \/ \E c \in SSEClientIds : HCtxDone(c)
             \/ \E c \in SSEClientIds : ClientDisconnect(c)
          /\ UNCHANGED shutdownVars
    /\ UNCHANGED <<regVars, concVars, httpVars, stdioVars, scannerVars,
                   genVars, pipeVars, filterVars, moreVars>>

\* every goroutine that can take a step does so in the end
SpecShutdown == InitShutdown /\ [][NextShutdown]_vars /\ WF_vars(NextShutdown)

\* the other sections while one of the later sections runs
IdleEarlier == IdleServers /\ IdleScanner /\ IdleGen /\ IdlePipe /\ IdleFilter /\ IdleShutdown

earlierVars == <<regVars, concVars, httpVars, stdioVars, sseVars, scannerVars,
                 genVars, pipeVars, filterVars, shutdownVars>>

\* MCPServer.Start has started handleMessages and waits in its select;
\* handleMessages is in its first scanner.Scan()
InitLife ==
    /\ IdleEarlier
    /\ IdleRace
    /\ IdleKey
    /\ lfCtx = FALSE
    /\ lfShutdown = "open"
    /\ lfCloses = 0
    /\ lfStartPc = "select"
    /\ lfLoopPc = "scan"
    /\ lfInput = 0
    /\ lfEof = FALSE
    /\ lfStopPc = [s \in Stoppers |-> "idle"]

NextLife ==
    /\ \/ LfCtxCancel
       \/ LfLineArrives
       \/ LfEofArrives
       \/ \E s \in Stoppers : LfStopCheck(s)
       \/ \E s \in Stoppers : LfStopClose(s)
       \/ LfStartWake
       \/ LfStartClose
       \/ LfStartReturn
       \/ LfScanLine
       \/ LfScanEof
       \/ LfLoopSelect
       \/ LfHandle
    /\ UNCHANGED <<earlierVars, raceVars, keyVars>>

\* a goroutine that can take a step takes it in the end; nothing makes the
\* peer write a line or close the stream, the context end or Stop be called
SpecLife ==
    /\ InitLife
    /\ [][NextLife]_vars
    /\ WF_vars(LfStartStep /\ UNCHANGED <<earlierVars, raceVars, keyVars>>)
    /\ WF_vars(LfLoopStep /\ UNCHANGED <<earlierVars, raceVars, keyVars>>)
    /\ WF_vars((\E s \in Stoppers : LfStopClose(s)) /\ UNCHANGED <<earlierVars, raceVars, keyVars>>)

\* the server runs: cleanupClients waits for its ticker, the other goroutines
\* have not started
InitRace ==
    /\ IdleEarlier
    /\ IdleLife
    /\ IdleKey
    /\ rcPc = [g \in RaceGoroutines |->
                 CASE g = "handler" -> "start"
                   [] g = "sweep" -> "wait"
                   [] g \in {"send1", "send2"} -> "none"
                   [] OTHER -> "idle"]
    /\ clientsMutexW = "none"
    /\ clientsMutexR = {}
    /\ rcInMap = FALSE
    /\ rcCtxDone = FALSE

NextRace ==
    /\ \/ RcRegisterLock
       \/ RcRegisterUnlock
       \/ RcConnectedWritten
       \/ RcSendTools
       \/ RcToolsWritten
       \/ RcHeartbeat
       \/ RcSendHeartbeat
       \/ RcHeartbeatWritten
       \/ RcDeleteLock
       \/ RcDeleteUnlock
       \/ RcDisconnect
       \/ \E g \in {"health", "config"} : RcLen(g)
       \/ \E g \in {"health", "config"} : RcLenDone(g)
       \/ RcSweepLock
       \/ RcSweepUnlock
       \/ \E g \in {"exec1", "exec2"} : RcBroadcastRLock(g)
       \/ \E g \in {"exec1", "exec2"} : RcBroadcastRUnlock(g)
       \/ \E g \in {"send1", "send2"} : RcSenderCheck(g)
       \/ \E g \in {"send1", "send2"} : RcSenderWritten(g)
       \/ RcStopLock
       \/ RcStopUnlock
    /\ UNCHANGED <<earlierVars, lifeVars, keyVars>>

SpecRace == InitRace /\ [][NextRace]_vars

(***************************************************************************)
(* SpecKey: execute requests with and without an apiKey argument            *)
(***************************************************************************)
InitKey ==
    /\ IdleEarlier
    /\ IdleLife
    /\ IdleRace
    /\ kyConfig \in {[Auth |-> [APIKey |-> k]] : k \in ConfiguredKeys}
    /\ kyPc = [e \in Executors |-> "idle"]
    /\ kyBody = [e \in Executors |-> AbsentArg]
    /\ kyArgs = [e \in Executors |-> AbsentArg]
    /\ kyKey = [e \in Executors |-> ""]
    /\ kyHeader = [e \in Executors |-> NotCalled]
    /\ kyPassed = [e \in Executors |-> NotPassed]
    /\ kyEvent = [e \in Executors |-> NoEvent]

NextKey ==
    /\ \/ \E e \in Executors, found \in BOOLEAN, a \in ApiKeyArgs : KyDecode(e, found, a)
       \/ \E e \in Executors : KyExtract(e)
       \/ \E e \in Executors, failed \in BOOLEAN : KyCall(e, failed)
       \/ \E e \in Executors : KyBroadcast(e)
       \/ \E e \in Executors : KyNext(e)
    /\ UNCHANGED <<earlierVars, lifeVars, raceVars>>

SpecKey == InitKey /\ [][NextKey]_vars


(***************************************************************************)
(* Claims                                                                  *)
(***************************************************************************)

\* C1: a RegisterTool of a tool whose name is already present returns the
\* conflict error and leaves the registry as it was: the name still maps to
\* the tool registered first and the tool count is unchanged. This holds in
\* every state reachable by RegisterTool / UnregisterTool / Clear calls.
C1_DuplicateToolRejected ==
    (ret.op = "RegisterTool" /\ ret.arg.name \in DOMAIN ret.pre)
        => /\ ret.err = "conflict"
           /\ tools = ret.pre
           /\ GetTool(tools, ret.arg.name) = ret.pre[ret.arg.name]
           /\ GetToolCount(tools) = MapLen(ret.pre)

\* C1 witness: a tool from another source was offered under a taken name
C1_Witness ==
    /\ ret.op = "RegisterTool"
    /\ ret.arg.name \in DOMAIN ret.pre
    /\ ret.arg # ret.pre[ret.arg.name]
    /\ ret.err = "conflict"

\* C2 (as claimed): RegisterPrompt and RegisterResource under a name that is
\* already present fail, and the entry registered first stays mapped to it.
C2_DuplicateAuxRejected ==
    /\ (ret.op = "RegisterPrompt" /\ ret.arg.name \in DOMAIN ret.pre)
          => /\ ret.err # "nil"
             /\ GetPrompt(prompts, ret.arg.name) = ret.pre[ret.arg.name]
    /\ (ret.op = "RegisterResource" /\ ret.arg.name \in DOMAIN ret.pre)
          => /\ ret.err # "nil"
             /\ GetResource(resources, ret.arg.name) = ret.pre[ret.arg.name]

\* the writers that pass a tool named n
WritersOf(n) == {w \in Writers : wtool[w].name = n}

\* what reader r has read agrees with the registry it holds the read lock on
ReadConsistent(r) ==
    /\ (pc[r] = "r_read" /\ rcall[r].op = "GetAllTools")
          => robs[r].cap = GetToolCount(tools)
    /\ pc[r] = "r_runlock" =>
          CASE rcall[r].op = "GetTool" ->
                 /\ robs[r].tool = GetTool(tools, rcall[r].name)
                 /\ \/ robs[r].tool = NilTool
                    \/ /\ robs[r].tool.name = rcall[r].name
                       /\ werr[robs[r].tool.src] = "nil"
            [] rcall[r].op = "GetAllTools" ->
                 /\ robs[r].list = GetAllTools(tools)
                 /\ robs[r].cap = Cardinality(robs[r].list)
                 /\ \A x, y \in robs[r].list : x.name = y.name => x = y
            [] OTHER ->
                 robs[r].count = MapLen(tools)

\* C3: when goroutines call RegisterTool concurrently with tools of the same
\* name, in every interleaving exactly one of the calls returns nil and every
\* other one returns the conflict error; the registry ends holding the tool of
\* the call that returned nil (no later writer overwrites it); a writer never
\* holds the lock together with a reader, and what a reader reads (GetTool,
\* GetAllTools, GetToolCount) is the registry as it is while it holds the read
\* lock: one tool per name, the count equal to the number of entries.
C3_ConcurrentRegisterOneWins ==
    /\ \A n \in Names :
          (WritersOf(n) # {} /\ \A w \in WritersOf(n) : pc[w] = "w_done")
             => \E w \in WritersOf(n) :
                   /\ werr[w] = "nil"
                   /\ n \in DOMAIN tools
                   /\ tools[n] = wtool[w]
                   /\ \A v \in WritersOf(n) \ {w} : werr[v] = "conflict"
    /\ \A w \in Writers : werr[w] = "nil" => GetTool(tools, wtool[w].name) = wtool[w]
    /\ rwWriter # 0 => rwReaders = {}
    /\ \A r \in Readers : ReadConsistent(r)

\* C3 witness: two writers raced for one name, the one with the higher id won
\* and the other got the conflict, and a reader then read the winner's tool
C3_Witness ==
    \E w, v \in Writers, r \in Readers :
        /\ w < v
        /\ wtool[w].name = wtool[v].name
        /\ pc[w] = "w_done" /\ pc[v] = "w_done"
        /\ werr[w] = "conflict" /\ werr[v] = "nil"
        /\ pc[r] = "r_runlock"
        /\ rcall[r].op = "GetTool"
        /\ robs[r].tool = wtool[v]

\* every request this call sent was answered with HTTP 503
Always503 == outcomes # <<>> /\ \A i \in 1..Len(outcomes) : outcomes[i] = HTTPAnswer(503)

RequiredAbsent ==
    \E i \in 1..Len(clEndpoint) : clEndpoint[i].required /\ clEndpoint[i].name \notin clArgs

\* C5: if a parameter the endpoint declares as required is absent from the
\* argument map, ExecuteRequest returns the validation error and sends nothing
\* on the network: the call never enters the retry loop, and its attempt count
\* is 0.
C5_MissingRequiredNoNetwork ==
    (RequiredAbsent /\ clPc \notin {"idle", "build"})
        => /\ clPc = "done"
           /\ clRet.kind = "error"
           /\ clRet.err = "validation"
           /\ attempts = 0
           /\ outcomes = <<>>

\* C5 witness: the call would have reached the network (a body, a URL that
\* parses), the first declared parameter is optional and the second, required,
\* is absent
C5_Witness ==
    /\ clPc = "done"
    /\ clRet.err = "validation"
    /\ "requestBody" \in clArgs
    /\ clUrlOk
    /\ Len(clEndpoint) = 2
    /\ ~clEndpoint[1].required
    /\ clEndpoint[2].required
    /\ clEndpoint[2].name \notin clArgs

\* the handler of the request read last has returned, or died
Handled == cur.kind = "request" /\ srvPc \in {"read", "eof", "crashed"}

\* C6 (as claimed): each tools/call request ends in exactly one of: (a) no
\* registered tool is named: one JSON-RPC error response, no outbound call;
\* (b) the outbound call returned an HTTP response: one JSON-RPC result whose
\* isError is true iff the status is >= 400; (c) the outbound call failed
\* without a response: one JSON-RPC result with isError = true. Params that do
\* not decode are counted under (a), a request that cannot be built under (c).
C6_CallToolOutcomes ==
    (Handled /\ cur.method = "tools/call")
        => \/ /\ callTool = NilTool
              /\ Len(written) = 1
              /\ written[1].kind = "error"
              /\ written[1].id = cur.id
              /\ attempts = 0
           \/ /\ callTool # NilTool
              /\ clRet.kind = "response"
              /\ written = <<ResultResponse(cur.id, "call", clRet.status >= 400, {})>>
           \/ /\ callTool # NilTool
              /\ clRet.kind = "error"
              /\ written = <<ResultResponse(cur.id, "call", TRUE, {})>>

\* the initializeTools goroutines that have not returned
RunningPasses == {k \in 1..Len(passes) : ~passes[k].done}

\* C7 (as claimed): whatever messages arrive, the scan-and-register pass is
\* started at most once, and two passes never run at the same time.
C7_PassStartedOnce ==
    /\ Len(passes) <= 1
    /\ Cardinality(RunningPasses) <= 1

\* C8: for a message whose method is not a supported one, nothing is written
\* when it carries no id, and exactly one error response with code -32601
\* ("Method not found") and the message's id is written when it carries one.
C8_UnknownMethod ==
    (cur.kind = "request" /\ cur.method \notin SupportedMethods)
        => /\ srvPc \in {"read", "eof"}
           /\ IF cur.id = NilId
              THEN written = <<>>
              ELSE written = <<ErrorResponse(cur.id, -32601, "Method not found")>>

\* C8 witness: an unknown method sent with id "2" got the -32601 error with id "2"
C8_Witness ==
    /\ cur.kind = "request"
    /\ cur.method \in UnknownMethods
    /\ cur.id = "2"
    /\ Len(written) = 1
    /\ written[1].code = -32601
    /\ written[1].id = "2"

\* C9 (as claimed): a line that does not parse yields exactly one parse-error
\* response (code -32700) that carries the id of the request whenever the id
\* can be read in the line, and the server goes on reading.
C9_ParseErrorCarriesId ==
    cur.kind = "badjson"
        => /\ written = <<ErrorResponse(cur.id, -32700, "Parse error")>>
           /\ srvPc \in {"read", "eof"}

\* C10 (as claimed): every message that carries an id, whatever its method, is
\* answered with exactly one response carrying that id.
C10_EveryIdAnswered ==
    (Handled /\ cur.id # NilId)
        => /\ Len(written) = 1
           /\ written[1].id = cur.id

\* C11 (as claimed): tool execution never crashes the server: for every call
\* of a registered tool, with or without a requestBody argument, building and
\* executing the outbound request ends in a result or an error value (never a
\* panic), and the message loop goes on reading.
C11_ExecutionNeverCrashes ==
    /\ srvPc # "crashed"
    /\ clPc # "panic"

\* C12 (as claimed): for every SSE client the first event written to its
\* stream is `connected` and the second is `tools`; no tool_execution or
\* heartbeat event is written before these two, even when a broadcast runs
\* while the connection is being set up.
C12_ConnectedThenTools ==
    \A c \in SSEClientIds :
        /\ Len(stream[c]) >= 1 => stream[c][1] = "connected"
        /\ Len(stream[c]) >= 2 => stream[c][2] = "tools"

\* the clients a sweep at this instant finds stale
Stale == {c \in clients : now - lastSeen[c] > StaleTicks}

\* C13 (as claimed): each sweep removes from the client map exactly the
\* clients whose last-seen time is more than 2 minutes old and cancels their
\* contexts, the others stay registered and are not cancelled by it; and a
\* connection that has gone silently dead is evicted within a bounded number
\* of sweeps: the sweeps that leave it registered are at most those of the 2
\* minutes after its death and one more.
C13_SweepEvictsDead ==
    /\ [][Sweep => /\ clients' = clients \ Stale
                   /\ \A c \in Stale : ctxDone'[c]
                   /\ \A c \in SSEClientIds \ Stale : ctxDone'[c] = ctxDone[c]]_vars
    /\ [](\A c \in SSEClientIds : deadSweeps[c] <= StaleTicks + 1)

\* C14 (as claimed), its safety part: a client whose handler has returned is
\* absent from the client map, and no Write is made on its stream after its
\* handler has returned.
C14_NoWriteAfterReturn ==
    \A c \in SSEClientIds :
        /\ hPc[c] = "returned" => c \notin clients
        /\ ~late[c]

\* C15: the broadcast of a successful execute request starts one send for
\* each client that is in the map when broadcastEvent runs and for no other;
\* the handler's response waits for none of them, and a send that can go on
\* never waits for another one, in particular not for one whose Write blocks;
\* status 200 is written only after the broadcast.
C15_BroadcastFireAndForget ==
    \A e \in Execs :
        /\ exPc[e] \in {"respond", "done"} /\ exStatus[e] \in {0, 200}
              => \A c \in SSEClientIds : (sendPc[e][c] # "none") <=> (c \in exSnap[e])
        /\ exPc[e] = "respond" => ENABLED ExRespond(e)
        /\ exStatus[e] = 200 => exPc[e] = "done"
        /\ \A c \in SSEClientIds :
              /\ sendPc[e][c] = "check" => ENABLED SendCheck(e, c)
              /\ sendPc[e][c] = "write" => ENABLED SendWrite(e, c)
              /\ sendPc[e][c] # "none" => exPc[e] \in {"respond", "done"}

\* C15 witness: two clients were registered at the broadcast, the Write to the
\* first blocked, the event was written to the second and the execute request
\* was answered with 200
C15_Witness ==
    \E e \in Execs :
        /\ exPc[e] = "done"
        /\ exStatus[e] = 200
        /\ exSnap[e] = {1, 2}
        /\ sendPc[e][1] = "blocked"
        /\ sendPc[e][2] = "written"

\* C16 (as claimed): POST /tools/{name}/execute answers 404 when the name is
\* not registered, whatever the body; 400 when the tool exists and the body is
\* no valid JSON; 500 when the outbound call returns an error; 200 otherwise;
\* every request is answered with one of these, and a tool_execution event is
\* broadcast only in the 200 case.
C16_ExecuteStatus ==
    \A e \in Execs :
        exPc[e] \in {"done", "panicked"}
            => /\ exStatus[e] \in {200, 400, 404, 500}
               /\ exReq[e].name \notin DOMAIN tools => exStatus[e] = 404
               /\ (exReq[e].name \in DOMAIN tools /\ exReq[e].body = "notjson")
                     => exStatus[e] = 400
               /\ exStatus[e] = 500 => exReq[e].body = "object"
               /\ (\E c \in SSEClientIds : sendPc[e][c] # "none") => exStatus[e] = 200


\* the errors recorded for source i, and the documents that came from it
ErrorsOf(i) == SelectSeq(allErrors, LAMBDA e : e.src = i)
DocumentsOf(i) == SelectSeq(allDocuments, LAMBDA d : d.src = i)

\* C17 (as claimed): ScanPathsAndURLs returns a nil error; every source that
\* fails has at least one entry in the error list; every source contributes
\* the documents its own scan found, whatever the other sources did; and
\* Stats.ValidDocuments and Stats.Errors are the lengths of the two lists.
C17_ScanNeverFailsAsAWhole ==
    scanRet.returned =>
        /\ scanRet.err = "nil"
        /\ \A i \in 1..Len(paths) :
              /\ paths[i] \in {"abs_error", "missing", "file_bad", "dir_unreadable"} =>
                     ErrorsOf(i) # <<>>
              /\ DocumentsOf(i) = ScanSinglePath(paths[i], i).documents
        /\ \A j \in 1..Len(urls) :
              /\ urls[j] = "url_fail" => ErrorsOf(Len(paths) + j) # <<>>
              /\ DocumentsOf(Len(paths) + j) =
                     ScanSingleURL(urls[j], Len(paths) + j).documents
        /\ scanRet.validDocuments = Len(allDocuments)
        /\ scanRet.errors = Len(allErrors)

\* the errors and the documents of the array's result that belong to item k
ArrErrorsOf(k) == SelectSeq(arrErrors, LAMBDA e : e.src = k)
ArrDocumentsOf(k) == SelectSeq(arrDocuments, LAMBDA d : d.src = k)

\* C18: processURLArray starts one goroutine per valid URL of the array and
\* returns only after all of them have finished; a goroutine that is about to
\* deliver its result always finds room in the channel and the channel open;
\* the result holds exactly the documents and the errors of every fetch, each
\* once, next to one error per item that is no URL, so that a failing URL
\* costs one error and none of the others' documents.
C18_FanOutJoined ==
    /\ \A k \in ItemIds : gPc[k] # "panic"
    /\ \A k \in ItemIds : gPc[k] = "send" => ~chanClosed /\ Len(resultChan) < ChanCap
    /\ Cardinality({k \in ItemIds : gPc[k] # "none"}) = launched
    /\ launched <= Len(validURLs)
    /\ arrPc = "returned" =>
          /\ launched = Len(validURLs)
          /\ resultChan = <<>>
          /\ \A k \in 1..Len(urlArray) :
                IF urlArray[k] \in {"doc", "fail", "list"}
                THEN /\ gPc[k] = "done"
                     /\ ArrDocumentsOf(k) = URLResult(urlArray[k], k).documents
                     /\ ArrErrorsOf(k) = URLResult(urlArray[k], k).errors
                ELSE /\ gPc[k] = "none"
                     /\ ArrDocumentsOf(k) = <<>>
                     /\ ArrErrorsOf(k) = <<ScanError(k)>>
          /\ \A n \in 1..Len(arrDocuments) : arrDocuments[n].src \in 1..Len(urlArray)
          /\ \A n \in 1..Len(arrErrors) : arrErrors[n].src \in 1..Len(urlArray)

\* C18 witness: an array with a URL that fails and a URL that gives a document
\* has been expanded and the function has returned with both results
C18_Witness ==
    /\ arrPc = "returned"
    /\ \E k, l \in 1..Len(urlArray) :
          /\ urlArray[k] = "fail"
          /\ urlArray[l] = "doc"
          /\ gPc[k] = "done"
          /\ gPc[l] = "done"
          /\ ArrErrorsOf(k) # <<>>
          /\ ArrDocumentsOf(l) # <<>>

\* C19 (as claimed): the expansion of URL arrays is bounded by the remote
\* documents there are: no call of scanSingleURL is nested in a call for the
\* same URL.  (A URL answers the same array every time, so a chain that comes
\* back to a URL goes on for ever, and with it the scan and the number of
\* goroutines it has started.)
C19_ExpansionBounded ==
    \A ch \in DOMAIN calls :
        \A i, j \in 1..Len(ch) : ch[i] = ch[j] => i = j

\* the version C20 describes: the first vN segment, else a vN fragment of the
\* file name, else the version the document declares, else "1"
ClaimedVersion(input) ==
    IF FirstVersionSegment(input.parts) # 0
    THEN MatchVersionSegment(input.parts[FirstVersionSegment(input.parts)])
    ELSE IF MatchVersionFragment(input.parts[Len(input.parts)]) # <<>>
    THEN MatchVersionFragment(input.parts[Len(input.parts)])
    ELSE ExtractVersionFromDocument(input.document)

\* C20 (as claimed): the version inferred for a document, local or remote, is
\* the N of the first vN path segment, else the N of a vN fragment of the file
\* name, else the version number the document declares, and "1" only when
\* there is none of the three.
C20_VersionInference ==
    verOut # NoVersion => verOut = ClaimedVersion(verIn)

\* C29: a call of ExecuteRequest that reaches the network makes at least one
\* and at most Retries + 1 attempts; every attempt followed by another one got
\* no response or one of the statuses 429, 500, 502, 503, 504; and when every
\* attempt failed at transport level the call returns the error that names
\* Retries + 1 attempts.
C29_AttemptsBounded ==
    /\ attempts <= cfgRetries + 1
    /\ \A i \in 1..(Len(outcomes) - 1) :
          outcomes[i] = NetErr \/ outcomes[i].status \in {429, 500, 502, 503, 504}
    /\ (clPc = "done" /\ clRet.err \notin {"validation", "no_base_url", "new_request"})
          => /\ attempts >= 1
             /\ (\A i \in 1..Len(outcomes) : outcomes[i] = NetErr)
                   => /\ attempts = cfgRetries + 1
                      /\ clRet.kind = "error"
                      /\ clRet.err = "exhausted"
                      /\ clRet.named = cfgRetries + 1

\* C29 witness: with three retries configured, a call has returned the error
\* after four attempts that all failed at transport level
C29_Witness ==
    /\ clPc = "done"
    /\ cfgRetries = 3
    /\ attempts = 4
    /\ \A i \in 1..Len(outcomes) : outcomes[i] = NetErr
    /\ clRet.err = "exhausted"

\* 1 + 4 + ... + n*n
RECURSIVE SumOfSquares(_)
SumOfSquares(n) == IF n <= 0 THEN 0 ELSE n * n + SumOfSquares(n - 1)

C27_MaxToolsRespected ==
    cfgMaxTools > 0 => GetToolCount(tools) <= cfgMaxTools

\* C28: on the stdio server a registered tool stays registered as it is, so
\* that what a tools/list response returned is returned by every later one
\* and is part of the final catalog; a tools/list response holds nothing but
\* registered tools; and the registry is empty as long as no initialized
\* notification was handled, whatever else was (initialize included).
C28_CatalogOnlyGrows ==
    /\ [][\A n \in DOMAIN tools : n \in DOMAIN tools' /\ tools'[n] = tools[n]]_vars
    /\ [](\A i \in 1..Len(written) :
             written[i].what = "tools" => written[i].list \subseteq DOMAIN tools)
    /\ [](~initialized => tools = EmptyMap)

\* C28 witness: a tools/list answered while the registration was under way
\* returned a part of the catalog, and the registry has grown since
C28_Witness ==
    /\ initialized
    /\ cur.method = "tools/list"
    /\ \E i \in 1..Len(written) :
          /\ written[i].what = "tools"
          /\ written[i].list # {}
          /\ written[i].list # DOMAIN tools

\* the call of generateToolName the state holds the result of
NameGenerated == nameIn # [endpoint |-> NoEndpoint, version |-> <<>>]

\* C21: for every endpoint and document info, the name generateToolName
\* returns is non-empty, at most 64 characters long and made of characters
\* of [a-z0-9_] only (and the call returns, it does not panic).
C21_ToolNameWellFormed ==
    NameGenerated =>
        /\ nameOut # Panic
        /\ nameOut # <<>>
        /\ Len(nameOut) <= MaxToolNameLength
        /\ \A i \in 1..Len(nameOut) : nameOut[i] \in NameChars

\* the document of the two format endpoints, none deprecated, was generated
FormatsGenerated ==
    /\ Len(docIn) = 2
    /\ ~docIn[1].deprecated
    /\ ~docIn[2].deprecated

\* the two names are the same but for _json in one where _xml is in the other
DifferByFormat(jsonName, xmlName) ==
    \E i \in 1..Len(jsonName) :
        /\ i + 4 <= Len(jsonName)
        /\ SubSeq(jsonName, i, i + 4) = <<"_", "j", "s", "o", "n">>
        /\ xmlName = SubSeq(jsonName, 1, i - 1) \o <<"_", "x", "m", "l">>
                        \o SubSeq(jsonName, i + 5, Len(jsonName))

\* C23: of the endpoints /x.json and /x.xml, a preferred format of json
\* leaves exactly one tool, that of /x.json; with no preferred format both
\* tools are generated and their names differ only by _json / _xml.
C23_PreferredFormat ==
    FormatsGenerated =>
        /\ preferFormat = "json" =>
              /\ Len(docOut) = 1
              /\ docOut[1].endpoint = FormatEndpoints[1]
        /\ preferFormat = "" =>
              /\ Len(docOut) = 2
              /\ DifferByFormat(docOut[1].name, docOut[2].name)

\* the required set of an endpoint: its parameters flagged required, and
\* requestBody when a required JSON body is declared
RequiredSet(endpoint) ==
    {endpoint.parameters[i].name :
        i \in {j \in 1..Len(endpoint.parameters) : endpoint.parameters[j].required}}
    \cup (IF endpoint.requestBody = "json_required" THEN {"requestBody"} ELSE {})

\* C24: the names of the schema's required array are the endpoint's required
\* set, and AddSwaggerTool, reading the schema back, marks exactly that set.
C24_RequiredRoundTrip ==
    schemaIn # NoEndpoint =>
        /\ {schemaOut.required.names[i] : i \in 1..Len(schemaOut.required.names)}
              = RequiredSet(schemaIn)
        /\ marked = RequiredSet(schemaIn)

\* C22: the pipeline run twice on the same document gives the same registry,
\* each name mapped to the same endpoint, also when two endpoints produce the
\* same name.
C22_PipelineDeterministic ==
    Len(pipeDone) = Runs => pipeDone[1] = pipeDone[2]

ShutdownComplete ==
    /\ startPc = "returned"
    /\ clients = {}
    /\ cleanupPc = "exited"
    /\ \A c \in SSEClientIds : hPc[c] # "idle" => ctxDone[c]

\* C26: once the context of Start is cancelled or Stop is called, Start
\* returns without error in the end, with the context of every connected
\* client cancelled, the client map empty and the cleanup goroutine gone.
C26_ShutdownCompletes ==
    (topCtx \/ stopCalled) ~> ShutdownComplete

\* C34: a message without id gets no response, whatever its method.
C34_NotificationsUnanswered ==
    (cur.kind = "request" /\ cur.id = NilId) => written = <<>>

\* C37: the two indexes of the resource registry agree: what one reaches by
\* URI has that URI and is what its name reaches, what one reaches by name is
\* what its URI reaches, and the indexes have the same number of entries.
C37_IndexesAgree ==
    /\ \A u \in DOMAIN uriIndex :
          /\ GetResourceByURI(uriIndex, u).uri = u
          /\ GetResource(resources, GetResourceByURI(uriIndex, u).name)
                = GetResourceByURI(uriIndex, u)
    /\ \A n \in DOMAIN resources :
          GetResourceByURI(uriIndex, GetResource(resources, n).uri) = GetResource(resources, n)
    /\ MapLen(resources) = MapLen(uriIndex)

\* C33: every response is written as one line for the line read last, before
\* the next line is read, and while the outbound call of a tools/call runs
\* (its retry waits included) no other line is read or answered.
C33_ResponsesInOrder ==
    [][/\ Len(written') <= 1
       /\ written' # <<>> =>
             \/ written'[1].id = cur'.id
             \/ cur'.kind = "badjson" /\ written'[1].id = NilId
       /\ srvPc = "calling" =>
             /\ cur' = cur
             /\ written' # <<>> => (srvPc' = "read" /\ written'[1].what = "call")]_vars

\* a tools/call has been answered after a retry wait of its outbound call
C33_Witness ==
    /\ srvPc = "read"
    /\ cur.method = "tools/call"
    /\ slept > 0
    /\ Len(written) = 1
    /\ written[1].what = "call"
    /\ written[1].id = cur.id

\* C31: the shutdown channel is closed at most once, whatever the
\* interleaving of the Stop calls, the cancellation and Start's way out.
C31_ShutdownClosedOnce ==
    lfCloses <= 1

\* Stop has been called or the context cancelled
LfShutdownAsked ==
    lfCtx \/ \E s \in Stoppers : lfStopPc[s] # "idle"

\* C32: after the context is cancelled or Stop is called Start returns in the
\* end, also when no line and no end of input ever arrives; and once the
\* input has reached its end the message loop ends.
C32_StartReturns ==
    /\ LfShutdownAsked ~> (lfStartPc = "returned")
    /\ (lfEof /\ lfInput = 0) ~> (lfLoopPc = "exited")

\* C35: s.clients and a client's LastSeen are written under the write lock of
\* clientsMutex only and read under one of its locks only, so that no
\* goroutine reads either while another writes it.
C35_ClientMapUnderMutex ==
    /\ \A g \in MapWriters \cup LastSeenWriters : clientsMutexW = g
    /\ \A g \in MapReaders \cup LastSeenReaders : clientsMutexW = g \/ g \in clientsMutexR
    /\ \A w \in MapWriters, r \in MapReaders \cup MapWriters : w = r
    /\ \A w \in LastSeenWriters, r \in LastSeenReaders \cup LastSeenWriters : w = r

\* C36: at most one goroutine at a time is writing to the client's stream.
C36_OneStreamWriter ==
    Cardinality(StreamWriters) <= 1

\* C38: an apiKey supplied in the arguments of an execute request never
\* changes the configured key, is never the key of another request's
\* outbound call, is not in the arguments passed to the call and is not in
\* the arguments of the tool_execution event.
C38_ApiKeyConfined ==
    /\ [][kyConfig' = kyConfig]_vars
    /\ [](\A e \in Executors :
            /\ kyHeader[e] \in
                 {NotCalled, addAuthentication(kyConfig)}
                   \cup (IF kyBody[e].t # "absent" THEN {kyBody[e].v} ELSE {})
            /\ kyBody[e].t # "absent" =>
                 /\ kyPassed[e] \in {NotPassed, AbsentArg}
                 /\ kyEvent[e] \in {NoEvent, AbsentArg})

=============================================================================
